---- MODULE Spec2Model ----
(***************************************************************************)
(* Model of the SQLAlchemy authorization engine of ourway/auth:            *)
(* auth/services/service.py (AuthorizationService) over the tables of      *)
(* auth/models/sql.py, with the field encryption of auth/encryption.py.    *)
(*                                                                         *)
(* A table is a sequence of rows; a row's primary key is its index (the    *)
(* autoincrement id; rows are never deleted from the three entity          *)
(* tables).  The two junction tables are sets of id pairs.  Every          *)
(* AuthorizationService method is one action that runs the whole method    *)
(* against the committed store and records the call and its return value   *)
(* in `last`.  Names handed to the engine are non-empty strings (the       *)
(* documented patterns [A-Za-z0-9_-]{1,64} / {1,128}).                     *)
(*                                                                         *)
(* For calls that overlap on distinct sessions, the same methods are also  *)
(* given statement by statement (`sessions`: each session's call in        *)
(* flight and its open transaction, under READ COMMITTED), and for one     *)
(* long-lived session the ORM objects it has loaded (`identity_map`).      *)
(***************************************************************************)
EXTENDS Integers, Sequences, FiniteSets, TLC

VARIABLES
    auth_group,          \* Seq of [creator, role, description, is_active]
    auth_membership,     \* Seq of [creator, user, is_active]   (user: stored form)
    auth_permission,     \* Seq of [creator, name, is_active]   (name: stored form)
    membership_groups,   \* set of <<membership_id, group_id>>
    permission_groups,   \* set of <<permission_id, group_id>>
    encryption_enabled,  \* FieldEncryption.enabled, fixed at start-up
    last,                \* the last engine call: [op, client, args, result]
    sessions,            \* per session: the call in flight, its transaction
    identity_map,        \* the objects a long-lived Session holds loaded
    audit_log,           \* Seq of audit_logs rows (auth/audit.py)
    response             \* the last HTTP exchange of the REST boundary

vars == <<auth_group, auth_membership, auth_permission, membership_groups,
          permission_groups, encryption_enabled, last, sessions,
          identity_map, audit_log, response>>

tables == <<auth_group, auth_membership, auth_permission, membership_groups,
            permission_groups>>

-----------------------------------------------------------------------------
(* The names the calls draw their arguments from.  Tenants, role, user    *)
(* and permission names are fixed sets; MaxDescriptions bounds how many    *)
(* different description texts add_role is given besides None.             *)

MaxDescriptions == 0

DescriptionPool == <<"staff", "everyone">>

Range(s) == {s[i] : i \in DOMAIN s}

Take(pool, n) == {pool[i] : i \in 1..(IF n < Len(pool) THEN n ELSE Len(pool))}

Clients == {"550e8400-e29b-41d4-a716-446655440000",
            "6ba7b810-9dad-41d1-80b4-00c04fd430c8"}
Roles == {"admin", "user"}
Users == {"john", "jane"}
Permissions == {"read"}

\* SQL NULL / Python None in a text column or argument.
Null == "<NULL>"
Descriptions == {Null} \cup Take(DescriptionPool, MaxDescriptions)

-----------------------------------------------------------------------------
(* auth/encryption.py                                                      *)

Plaintexts == Users \cup Permissions \cup Range(DescriptionPool)

\* DeterministicEncryption.encrypt: base64(iv || AES-CTR(p)) with iv = HMAC(p)[:16];
\* a pure, injective function of the plaintext whose value is never one of
\* the plaintexts.
Ciphertext == [p \in Plaintexts |-> "b64:" \o p]

DeterministicEncrypt(data) == Ciphertext[data]

\* DeterministicEncryption.decrypt succeeds exactly on values encrypt produced
\* and then returns the plaintext.
Plaintext ==
    [v \in {Ciphertext[p] : p \in Plaintexts} |->
        CHOOSE p \in Plaintexts : Ciphertext[p] = v]

IsCiphertext(value) == value \in DOMAIN Plaintext

DeterministicDecrypt(value) == Plaintext[value]

\* FieldEncryption.encrypt_field
encrypt_sensitive_data(data) ==
    IF ~encryption_enabled \/ data = Null \/ data = ""
    THEN data
    ELSE DeterministicEncrypt(data)

\* FieldEncryption.decrypt_field: a failed decryption returns its input.
decrypt_sensitive_data(data) ==
    IF ~encryption_enabled \/ data = Null \/ data = ""
    THEN data
    ELSE IF IsCiphertext(data) THEN DeterministicDecrypt(data) ELSE data

\* encrypt_sensitive_data(x) or x
Truthy(s) == s # Null /\ s # ""

_get_encrypted_user(user) ==
    IF Truthy(encrypt_sensitive_data(user)) THEN encrypt_sensitive_data(user) ELSE user

_get_encrypted_permission(name) ==
    IF Truthy(encrypt_sensitive_data(name)) THEN encrypt_sensitive_data(name) ELSE name

-----------------------------------------------------------------------------
(* auth/models/sql.py: the decrypting properties of the ORM classes        *)

AuthGroup_description(g) ==
    IF Truthy(auth_group[g].description)
    THEN decrypt_sensitive_data(auth_group[g].description)
    ELSE Null

AuthMembership_user(m) ==
    IF Truthy(auth_membership[m].user)
    THEN decrypt_sensitive_data(auth_membership[m].user)
    ELSE Null

AuthPermission_name(p) ==
    IF Truthy(auth_permission[p].name)
    THEN decrypt_sensitive_data(auth_permission[p].name)
    ELSE Null

\* relationship(... secondary=membership_groups / permission_groups ...)
AuthMembership_groups(m) == {g \in DOMAIN auth_group : <<m, g>> \in membership_groups}
AuthGroup_memberships(g) == {m \in DOMAIN auth_membership : <<m, g>> \in membership_groups}
AuthPermission_groups(p) == {g \in DOMAIN auth_group : <<p, g>> \in permission_groups}
AuthGroup_permissions(g) == {p \in DOMAIN auth_permission : <<p, g>> \in permission_groups}

-----------------------------------------------------------------------------
(* Result lists: rows come back in primary-key order.                      *)

Min(S) == CHOOSE x \in S : \A y \in S : x <= y

RECURSIVE Ordered(_)
Ordered(S) == IF S = {} THEN <<>> ELSE <<Min(S)>> \o Ordered(S \ {Min(S)})

\* Query.first(): the first matching row's id, 0 for None.
First(S) == IF S = {} THEN 0 ELSE Min(S)

\* how many times entry e occurs in the list s
Count(s, e) == Cardinality({i \in DOMAIN s : s[i] = e})

-----------------------------------------------------------------------------
(* AuthorizationService reads (auth/services/service.py); `client` is      *)
(* self.client.                                                            *)

\* query(AuthGroup).filter(creator == client, role == role, is_active).first()
ActiveGroup(client, role) ==
    First({g \in DOMAIN auth_group :
              /\ auth_group[g].creator = client
              /\ auth_group[g].role = role
              /\ auth_group[g].is_active})

\* query(AuthGroup).filter(creator == client, role == role).first()
AnyGroup(client, role) ==
    First({g \in DOMAIN auth_group :
              /\ auth_group[g].creator = client
              /\ auth_group[g].role = role})

\* query(AuthMembership).filter(creator == client, _user == enc(user), is_active).first()
ActiveMembership(client, user) ==
    First({m \in DOMAIN auth_membership :
              /\ auth_membership[m].creator = client
              /\ auth_membership[m].user = _get_encrypted_user(user)
              /\ auth_membership[m].is_active})

\* query(AuthMembership).filter(creator == client, _user == enc(user)).first()
AnyMembership(client, user) ==
    First({m \in DOMAIN auth_membership :
              /\ auth_membership[m].creator = client
              /\ auth_membership[m].user = _get_encrypted_user(user)})

\* query(AuthPermission).filter(creator == client, _name == enc(name), is_active).first()
ActivePermission(client, name) ==
    First({p \in DOMAIN auth_permission :
              /\ auth_permission[p].creator = client
              /\ auth_permission[p].name = _get_encrypted_permission(name)
              /\ auth_permission[p].is_active})

\* query(AuthPermission).filter(creator == client, _name == enc(name)).first()
AnyPermission(client, name) ==
    First({p \in DOMAIN auth_permission :
              /\ auth_permission[p].creator = client
              /\ auth_permission[p].name = _get_encrypted_permission(name)})

get_roles(client) ==
    LET groups == Ordered({g \in DOMAIN auth_group :
                              /\ auth_group[g].creator = client
                              /\ auth_group[g].is_active})
    IN  [i \in DOMAIN groups |->
            [role |-> auth_group[groups[i]].role,
             description |-> AuthGroup_description(groups[i])]]

get_permissions(client, role) ==
    LET group == ActiveGroup(client, role)
        perms == Ordered({p \in AuthGroup_permissions(group) :
                             auth_permission[p].is_active})
    IN  IF group = 0 THEN <<>>
        ELSE [i \in DOMAIN perms |-> [name |-> AuthPermission_name(perms[i])]]

\* the inner loop of get_user_permissions over one group
GroupPermissionNames(group) ==
    LET perms == Ordered({p \in AuthGroup_permissions(group) :
                             auth_permission[p].is_active})
    IN  [i \in DOMAIN perms |-> [name |-> AuthPermission_name(perms[i])]]

RECURSIVE Extend(_, _)
\* result.extend(f(x)) for x in the list xs, in order; f is a function
Extend(xs, f) ==
    IF xs = <<>> THEN <<>> ELSE f[Head(xs)] \o Extend(Tail(xs), f)

\* Mutant: the loop forgets `if group.is_active`.
get_user_permissions_Inactive(client, user) ==
    LET membership == ActiveMembership(client, user)
        groups == Ordered(AuthMembership_groups(membership))
    IN  IF membership = 0 THEN <<>>
        ELSE Extend(groups, [g \in Range(groups) |-> GroupPermissionNames(g)])

get_user_permissions(client, user) ==
    LET membership == ActiveMembership(client, user)
        groups == Ordered({g \in AuthMembership_groups(membership) :
                              auth_group[g].is_active})
    IN  IF membership = 0 THEN <<>>
        ELSE Extend(groups, [g \in Range(groups) |-> GroupPermissionNames(g)])

\* Mutant: the comprehension forgets `if group.is_active`.
get_user_roles_Inactive(client, user) ==
    LET membership == ActiveMembership(client, user)
        groups == Ordered(AuthMembership_groups(membership))
    IN  IF membership = 0 THEN <<>>
        ELSE [i \in DOMAIN groups |->
                 [user |-> AuthMembership_user(membership),
                  role |-> auth_group[groups[i]].role]]

get_user_roles(client, user) ==
    LET membership == ActiveMembership(client, user)
        groups == Ordered({g \in AuthMembership_groups(membership) :
                              auth_group[g].is_active})
    IN  IF membership = 0 THEN <<>>
        ELSE [i \in DOMAIN groups |->
                 [user |-> AuthMembership_user(membership),
                  role |-> auth_group[groups[i]].role]]

get_role_members(client, role) ==
    LET group == ActiveGroup(client, role)
        members == Ordered({m \in AuthGroup_memberships(group) :
                               auth_membership[m].is_active})
    IN  IF group = 0 THEN <<>>
        ELSE [i \in DOMAIN members |->
                 [user |-> AuthMembership_user(members[i]),
                  role |-> auth_group[group].role]]

\* Mutant: the comprehension forgets `if group.is_active`.
which_roles_can_Inactive(client, name) ==
    LET permission == ActivePermission(client, name)
        groups == Ordered(AuthPermission_groups(permission))
    IN  IF permission = 0 THEN <<>>
        ELSE [i \in DOMAIN groups |-> [role |-> auth_group[groups[i]].role]]

which_roles_can(client, name) ==
    LET permission == ActivePermission(client, name)
        groups == Ordered({g \in AuthPermission_groups(permission) :
                              auth_group[g].is_active})
    IN  IF permission = 0 THEN <<>>
        ELSE [i \in DOMAIN groups |-> [role |-> auth_group[groups[i]].role]]

\* Mutant: the result is flattened to one entry per user (the first role a
\* user qualifies through).
which_users_can_Flat(client, name) ==
    LET roles == which_roles_can(client, name)
        all == Extend(roles, [rd \in Range(roles) |->
                                 get_role_members(client, rd.role)])
        firsts == {i \in DOMAIN all :
                      \A j \in DOMAIN all : all[j].user = all[i].user => i <= j}
        kept == Ordered(firsts)
    IN  [i \in DOMAIN kept |-> all[kept[i]]]

which_users_can(client, name) ==
    LET roles == which_roles_can(client, name)
    IN  Extend(roles, [rd \in Range(roles) |-> get_role_members(client, rd.role)])

has_membership(client, user, role) ==
    LET membership == ActiveMembership(client, user)
    IN  IF membership = 0 THEN FALSE
        ELSE \E g \in AuthMembership_groups(membership) :
                 auth_group[g].role = role /\ auth_group[g].is_active

has_permission(client, role, name) ==
    LET group == ActiveGroup(client, role)
    IN  IF group = 0 THEN FALSE
        ELSE \E p \in AuthGroup_permissions(group) :
                 AuthPermission_name(p) = name /\ auth_permission[p].is_active

\* Mutant: the loop runs over every group of the tenant instead of the
\* membership's groups.
user_has_permission_AnyGroup(client, user, name) ==
    LET membership == ActiveMembership(client, user)
    IN  IF membership = 0 THEN FALSE
        ELSE \E g \in DOMAIN auth_group :
                 /\ auth_group[g].creator = client
                 /\ auth_group[g].is_active
                 /\ has_permission(client, auth_group[g].role, name)

user_has_permission(client, user, name) ==
    LET membership == ActiveMembership(client, user)
    IN  IF membership = 0 THEN FALSE
        ELSE \E g \in AuthMembership_groups(membership) :
                 /\ auth_group[g].is_active
                 /\ has_permission(client, auth_group[g].role, name)

-----------------------------------------------------------------------------
(* The store statements issued by the writes.                              *)

\* SELECT id FROM auth_group WHERE creator = :creator AND role = :role
\*   AND is_active = true   -> fetchone(), 0 for no row
\* Mutant: the WHERE clause forgets `creator = :creator`.
SelectGroupId_AnyCreator(client, role) ==
    First({g \in DOMAIN auth_group :
              /\ auth_group[g].role = role
              /\ auth_group[g].is_active = TRUE})

\* Mutant: the WHERE clause forgets `is_active = true`.
SelectGroupId_Inactive(client, role) ==
    First({g \in DOMAIN auth_group :
              /\ auth_group[g].creator = client
              /\ auth_group[g].role = role})

SelectGroupId(client, role) ==
    First({g \in DOMAIN auth_group :
              /\ auth_group[g].creator = client
              /\ auth_group[g].role = role
              /\ auth_group[g].is_active = TRUE})

\* Mutant: ON CONFLICT (creator, role) DO NOTHING.
UpsertGroup_DoNothing(client, role, description) ==
    IF \E g \in DOMAIN auth_group :
           auth_group[g].creator = client /\ auth_group[g].role = role
    THEN auth_group
    ELSE Append(auth_group,
                [creator |-> client, role |-> role,
                 description |-> description, is_active |-> TRUE])

\* Mutant: a plain INSERT on a table without the unique constraint.
UpsertGroup_Append(client, role, description) ==
    Append(auth_group,
           [creator |-> client, role |-> role,
            description |-> description, is_active |-> TRUE])

\* INSERT INTO auth_group ... ON CONFLICT (creator, role) DO UPDATE SET
\*   is_active = true, description = COALESCE(EXCLUDED.description, description)
UpsertGroup(client, role, description) ==
    LET conflict == {g \in DOMAIN auth_group :
                        /\ auth_group[g].creator = client
                        /\ auth_group[g].role = role}
    IN  IF conflict = {}
        THEN Append(auth_group,
                    [creator |-> client, role |-> role,
                     description |-> description, is_active |-> TRUE])
        ELSE [g \in DOMAIN auth_group |->
                 IF g \in conflict
                 THEN [auth_group[g] EXCEPT
                          !.is_active = TRUE,
                          !.description =
                              IF description # Null THEN description ELSE @]
                 ELSE auth_group[g]]

\* Mutant: a plain INSERT on a table without the unique constraint.
UpsertMembership_Append(client, encrypted_user) ==
    Append(auth_membership,
           [creator |-> client, user |-> encrypted_user, is_active |-> TRUE])

\* INSERT INTO auth_membership ... ON CONFLICT (creator, "user") DO UPDATE SET
\*   is_active = true  RETURNING id      (the table after the statement)
UpsertMembership(client, encrypted_user) ==
    LET conflict == {m \in DOMAIN auth_membership :
                        /\ auth_membership[m].creator = client
                        /\ auth_membership[m].user = encrypted_user}
    IN  IF conflict = {}
        THEN Append(auth_membership,
                    [creator |-> client, user |-> encrypted_user,
                     is_active |-> TRUE])
        ELSE [m \in DOMAIN auth_membership |->
                 IF m \in conflict
                 THEN [auth_membership[m] EXCEPT !.is_active = TRUE]
                 ELSE auth_membership[m]]

\* ... RETURNING id
UpsertMembershipId(client, encrypted_user) ==
    LET conflict == {m \in DOMAIN auth_membership :
                        /\ auth_membership[m].creator = client
                        /\ auth_membership[m].user = encrypted_user}
    IN  IF conflict = {} THEN Len(auth_membership) + 1 ELSE Min(conflict)

\* Mutant: a plain INSERT on a table without the unique constraint.
UpsertPermission_Append(client, encrypted_name) ==
    Append(auth_permission,
           [creator |-> client, name |-> encrypted_name, is_active |-> TRUE])

\* INSERT INTO auth_permission ... ON CONFLICT (creator, name) DO UPDATE SET
\*   is_active = true  RETURNING id      (the table after the statement)
UpsertPermission(client, encrypted_name) ==
    LET conflict == {p \in DOMAIN auth_permission :
                        /\ auth_permission[p].creator = client
                        /\ auth_permission[p].name = encrypted_name}
    IN  IF conflict = {}
        THEN Append(auth_permission,
                    [creator |-> client, name |-> encrypted_name,
                     is_active |-> TRUE])
        ELSE [p \in DOMAIN auth_permission |->
                 IF p \in conflict
                 THEN [auth_permission[p] EXCEPT !.is_active = TRUE]
                 ELSE auth_permission[p]]

\* ... RETURNING id
UpsertPermissionId(client, encrypted_name) ==
    LET conflict == {p \in DOMAIN auth_permission :
                        /\ auth_permission[p].creator = client
                        /\ auth_permission[p].name = encrypted_name}
    IN  IF conflict = {} THEN Len(auth_permission) + 1 ELSE Min(conflict)

\* INSERT INTO <junction> (a_id, group_id) ... ON CONFLICT DO NOTHING
InsertLink(junction, a_id, group_id) == junction \cup {<<a_id, group_id>>}

\* Mutant: the DELETE forgets `AND group_id = :group_id`.
DeleteLink_All(junction, a_id, group_id) ==
    {l \in junction : l[1] # a_id}

\* collection.remove(group) flushed at commit: DELETE FROM <junction> WHERE ...
DeleteLink(junction, a_id, group_id) == junction \ {<<a_id, group_id>>}

\* What a call found when it started, kept with the call's record: the state
\* of the role it names ("absent", "inactive", "active"; "n/a" for none),
\* and whether the relationship it names was in effect.
RoleState(client, role) ==
    IF AnyGroup(client, role) = 0 THEN "absent"
    ELSE IF auth_group[AnyGroup(client, role)].is_active THEN "active"
    ELSE "inactive"

Before(role_state, linked) ==
    [role |-> role_state, linked |-> linked]

\* The record of a call: what was called, with what, what it returned.
Call(op, client, args, result, before) ==
    [op |-> op, client |-> client, args |-> args, result |-> result,
     before |-> before]

\* Whether the store raises inside a write's try block ("none": it does not).
Faults == {"none", "store"}

-----------------------------------------------------------------------------
(* AuthorizationService writes                                             *)

add_role(client, role, description, fault) ==
    /\ IF fault = "none"
       THEN /\ auth_group' = UpsertGroup(client, role, description)
            /\ last' = Call("add_role", client, <<role, description>>, TRUE,
                     Before(RoleState(client, role), FALSE))
       ELSE \* except Exception: rollback(); return False
            /\ auth_group' = auth_group
            /\ last' = Call("add_role", client, <<role, description>>, FALSE,
                     Before(RoleState(client, role), FALSE))
    /\ UNCHANGED <<auth_membership, auth_permission, membership_groups,
                   permission_groups, encryption_enabled, sessions,
                   identity_map, audit_log, response>>

\* Mutant: `if group:` in place of `if group and group.is_active:`.
del_role_AnyRow(client, role) ==
    LET group == AnyGroup(client, role)
    IN  /\ IF group # 0
           THEN /\ auth_group' = [auth_group EXCEPT ![group].is_active = FALSE]
                /\ last' = Call("del_role", client, <<role>>, TRUE,
                     Before(RoleState(client, role), FALSE))
           ELSE /\ auth_group' = auth_group
                /\ last' = Call("del_role", client, <<role>>, FALSE,
                     Before(RoleState(client, role), FALSE))
        /\ UNCHANGED <<auth_membership, auth_permission, membership_groups,
                       permission_groups, encryption_enabled, sessions,
                   identity_map, audit_log, response>>

\* Mutant: a hard delete that takes the role's link rows with it.
del_role_Cascade(client, role) ==
    LET group == AnyGroup(client, role)
    IN  /\ IF group # 0 /\ auth_group[group].is_active
           THEN /\ auth_group' = [auth_group EXCEPT ![group].is_active = FALSE]
                /\ membership_groups' =
                       {l \in membership_groups : l[2] # group}
                /\ permission_groups' =
                       {l \in permission_groups : l[2] # group}
                /\ last' = Call("del_role", client, <<role>>, TRUE,
                     Before(RoleState(client, role), FALSE))
           ELSE /\ auth_group' = auth_group
                /\ UNCHANGED <<membership_groups, permission_groups>>
                /\ last' = Call("del_role", client, <<role>>, FALSE,
                     Before(RoleState(client, role), FALSE))
        /\ UNCHANGED <<auth_membership, auth_permission,
                       encryption_enabled, sessions,
                       identity_map, audit_log, response>>

del_role(client, role) ==
    LET group == AnyGroup(client, role)
    IN  /\ IF group # 0 /\ auth_group[group].is_active
           THEN /\ auth_group' = [auth_group EXCEPT ![group].is_active = FALSE]
                /\ last' = Call("del_role", client, <<role>>, TRUE,
                     Before(RoleState(client, role), FALSE))
           ELSE /\ auth_group' = auth_group
                /\ last' = Call("del_role", client, <<role>>, FALSE,
                     Before(RoleState(client, role), FALSE))
        /\ UNCHANGED <<auth_membership, auth_permission, membership_groups,
                       permission_groups, encryption_enabled, sessions,
                   identity_map, audit_log, response>>

add_membership(client, user, role, fault) ==
    LET group_id == SelectGroupId(client, role)
        encrypted_user == _get_encrypted_user(user)
        membership_id == UpsertMembershipId(client, encrypted_user)
    IN  /\ IF group_id = 0
           THEN /\ UNCHANGED <<auth_membership, membership_groups>>
                /\ last' = Call("add_membership", client, <<user, role>>, FALSE,
                     Before(RoleState(client, role), has_membership(client, user, role)))
           ELSE IF fault = "none"
           THEN /\ auth_membership' = UpsertMembership(client, encrypted_user)
                /\ membership_groups' =
                       InsertLink(membership_groups, membership_id, group_id)
                /\ last' = Call("add_membership", client, <<user, role>>, TRUE,
                     Before(RoleState(client, role), has_membership(client, user, role)))
           ELSE \* except Exception: rollback(); return False
                /\ UNCHANGED <<auth_membership, membership_groups>>
                /\ last' = Call("add_membership", client, <<user, role>>, FALSE,
                     Before(RoleState(client, role), has_membership(client, user, role)))
        /\ UNCHANGED <<auth_group, auth_permission, permission_groups,
                       encryption_enabled, sessions,
                   identity_map, audit_log, response>>

del_membership(client, user, role) ==
    LET group == AnyGroup(client, role)
        membership == AnyMembership(client, user)
    IN  /\ IF /\ has_membership(client, user, role)
              /\ group # 0
              /\ membership # 0
              /\ group \in AuthMembership_groups(membership)
           THEN membership_groups' =
                    DeleteLink(membership_groups, membership, group)
           ELSE membership_groups' = membership_groups
        /\ last' = Call("del_membership", client, <<user, role>>, TRUE,
                     Before(RoleState(client, role), has_membership(client, user, role)))
        /\ UNCHANGED <<auth_group, auth_membership, auth_permission,
                       permission_groups, encryption_enabled, sessions,
                   identity_map, audit_log, response>>

add_permission(client, role, name, fault) ==
    LET group_id == SelectGroupId(client, role)
        encrypted_name == _get_encrypted_permission(name)
        perm_id == UpsertPermissionId(client, encrypted_name)
    IN  /\ IF has_permission(client, role, name)
           THEN /\ UNCHANGED <<auth_permission, permission_groups>>
                /\ last' = Call("add_permission", client, <<role, name>>, TRUE,
                     Before(RoleState(client, role), has_permission(client, role, name)))
           ELSE IF group_id = 0
           THEN /\ UNCHANGED <<auth_permission, permission_groups>>
                /\ last' = Call("add_permission", client, <<role, name>>, FALSE,
                     Before(RoleState(client, role), has_permission(client, role, name)))
           ELSE IF fault = "none"
           THEN /\ auth_permission' = UpsertPermission(client, encrypted_name)
                /\ permission_groups' =
                       InsertLink(permission_groups, perm_id, group_id)
                /\ last' = Call("add_permission", client, <<role, name>>, TRUE,
                     Before(RoleState(client, role), has_permission(client, role, name)))
           ELSE \* except Exception: rollback(); return False
                /\ UNCHANGED <<auth_permission, permission_groups>>
                /\ last' = Call("add_permission", client, <<role, name>>, FALSE,
                     Before(RoleState(client, role), has_permission(client, role, name)))
        /\ UNCHANGED <<auth_group, auth_membership, membership_groups,
                       encryption_enabled, sessions,
                   identity_map, audit_log, response>>

del_permission(client, role, name) ==
    LET group == AnyGroup(client, role)
        permission == AnyPermission(client, name)
    IN  /\ IF /\ has_permission(client, role, name)
              /\ group # 0
              /\ permission # 0
              /\ group \in AuthPermission_groups(permission)
           THEN permission_groups' =
                    DeleteLink(permission_groups, permission, group)
           ELSE permission_groups' = permission_groups
        /\ last' = Call("del_permission", client, <<role, name>>, TRUE,
                     Before(RoleState(client, role), has_permission(client, role, name)))
        /\ UNCHANGED <<auth_group, auth_membership, auth_permission,
                       membership_groups, encryption_enabled, sessions,
                   identity_map, audit_log, response>>

\* A read: the call returns what the query evaluates to and writes nothing.
Read(op, client, args, result) ==
    /\ last' = Call(op, client, args, result,
                     Before("n/a", FALSE))
    /\ UNCHANGED <<auth_group, auth_membership, auth_permission,
                   membership_groups, permission_groups, encryption_enabled, sessions,
                   identity_map, audit_log, response>>

-----------------------------------------------------------------------------
(* Sessions                                                                *)

\* SessionLocal(): the sessions that can be open at the same time.
Sessions == {"s1", "s2"}

\* A session on which no call has been made yet.  Of a call the session
\* keeps: the method, tenant and arguments; pc, the statement the call
\* issues next ("done" after a return, the failing statement after an
\* exception); group_id and found, the locals the call has bound so far;
\* pending, the statements of its open transaction, invisible to other
\* sessions until commit; status ("idle", "running", "returned", "raised")
\* and the returned value; overlapped, whether another session's call was
\* in flight at some moment of this call.
IdleSession ==
    [op |-> "idle", client |-> "", args |-> <<>>, pc |-> "idle",
     group_id |-> 0, found |-> [role |-> "n/a", linked |-> FALSE],
     pending |-> <<>>,
     status |-> "idle", result |-> FALSE, overlapped |-> FALSE]

\* The identity map of a new Session: no object loaded.
NoObjects ==
    [auth_group |-> [g \in {} |-> FALSE],
     auth_membership |-> [m \in {} |-> FALSE],
     auth_permission |-> [p \in {} |-> FALSE]]

-----------------------------------------------------------------------------
(* Specification                                                           *)

\* `response` before the first request
NoExchange ==
    [route |-> "none", header |-> <<>>, args |-> <<>>,
     store_fault |-> [class |-> "none", code |-> 0, contains |-> {}],
     audit_failed |-> FALSE, status |-> 0, invoked |-> FALSE,
     exception |-> [class |-> "none", code |-> 0, contains |-> {}],
     body |-> <<>>, rows |-> 0, serial |-> 0]

\* The store after create_tables(): empty; the encryption switch is
\* configuration, either value.
Init ==
    /\ auth_group = <<>>
    /\ auth_membership = <<>>
    /\ auth_permission = <<>>
    /\ membership_groups = {}
    /\ permission_groups = {}
    /\ encryption_enabled \in BOOLEAN
    /\ last = Call("init", "", <<>>, FALSE,
                    Before("n/a", FALSE))
    /\ sessions = [s \in Sessions |-> IdleSession]
    /\ identity_map = NoObjects
    /\ audit_log = <<>>
    /\ response = NoExchange

\* The administrative writes with arguments from the given sets.
Writes(C, R, U, P, D, F) ==
    \/ \E c \in C, r \in R, d \in D, f \in F : add_role(c, r, d, f)
    \/ \E c \in C, r \in R : del_role(c, r)
    \/ \E c \in C, u \in U, r \in R, f \in F : add_membership(c, u, r, f)
    \/ \E c \in C, u \in U, r \in R : del_membership(c, u, r)
    \/ \E c \in C, r \in R, p \in P, f \in F : add_permission(c, r, p, f)
    \/ \E c \in C, r \in R, p \in P : del_permission(c, r, p)

\* The reads with arguments from the given sets.
Reads(C, R, U, P) ==
    \/ \E c \in C : Read("get_roles", c, <<>>, get_roles(c))
    \/ \E c \in C, r \in R :
           Read("get_permissions", c, <<r>>, get_permissions(c, r))
    \/ \E c \in C, u \in U :
           Read("get_user_permissions", c, <<u>>, get_user_permissions(c, u))
    \/ \E c \in C, u \in U :
           Read("get_user_roles", c, <<u>>, get_user_roles(c, u))
    \/ \E c \in C, r \in R :
           Read("get_role_members", c, <<r>>, get_role_members(c, r))
    \/ \E c \in C, p \in P :
           Read("which_roles_can", c, <<p>>, which_roles_can(c, p))
    \/ \E c \in C, p \in P :
           Read("which_users_can", c, <<p>>, which_users_can(c, p))
    \/ \E c \in C, u \in U, r \in R :
           Read("has_membership", c, <<u, r>>, has_membership(c, u, r))
    \/ \E c \in C, r \in R, p \in P :
           Read("has_permission", c, <<r, p>>, has_permission(c, r, p))
    \/ \E c \in C, u \in U, p \in P :
           Read("user_has_permission", c, <<u, p>>, user_has_permission(c, u, p))

\* One tenant administering its roles, users and permissions, with field
\* encryption switched on; the store does not fail.
OneClient == {"550e8400-e29b-41d4-a716-446655440000"}

InitEncrypted == Init /\ encryption_enabled

Next == Writes(OneClient, Roles, Users, Permissions, Descriptions, {"none"})

Spec == InitEncrypted /\ [][Next]_vars

\* Two tenants that use the same role, user and permission names.
SharedRoles == {"admin"}
SharedUsers == {"john"}
SharedPermissions == {"read"}

NextTenants ==
    Writes(Clients, SharedRoles, SharedUsers, SharedPermissions,
           {Null}, {"none"})

SpecTenants == InitEncrypted /\ [][NextTenants]_vars

\* One tenant's writes interleaved with every read.
NextReads ==
    \/ Writes(OneClient, Roles, {"john"}, {"read"}, {Null, "staff"}, {"none"})
    \/ Reads(OneClient, Roles, {"john"}, {"read"})

SpecReads == Init /\ [][NextReads]_vars

-----------------------------------------------------------------------------
(* AuthorizationService calls, statement by statement.                     *)
(*                                                                         *)
(* The engine runs PostgreSQL at READ COMMITTED: a statement reads the     *)
(* committed store; what a transaction has written stays in the session's  *)
(* `pending` until commit; an INSERT ... ON CONFLICT or UPDATE that meets  *)
(* a row another open transaction has written waits for that transaction   *)
(* to end (the step is not enabled while the row is locked).               *)

\* A statement of an open transaction: the table, the unique key it wrote
\* and what it did ("insert", "update", "nothing").
Statement(table, key, effect) ==
    [table |-> table, key |-> key, effect |-> effect]

\* Another session's open transaction has written the row with this key.
Locked(s, table, key) ==
    \E t \in Sessions \ {s} :
        \E i \in DOMAIN sessions[t].pending :
            /\ sessions[t].pending[i].table = table
            /\ sessions[t].pending[i].key = key
            /\ sessions[t].pending[i].effect # "nothing"

\* The call on session s stands at statement pc of method op.
At(s, op, pc) ==
    /\ sessions[s].status = "running"
    /\ sessions[s].op = op
    /\ sessions[s].pc = pc

\* The caller invokes a method on a session that has no call in flight.
Begin(s, op, client, args, pc) ==
    /\ sessions[s].status # "running"
    /\ sessions' =
           [t \in Sessions |->
               IF t = s
               THEN [IdleSession EXCEPT
                        !.op = op, !.client = client, !.args = args,
                        !.pc = pc, !.status = "running",
                        !.overlapped =
                            \E o \in Sessions \ {s} :
                                sessions[o].status = "running"]
               ELSE IF sessions[t].status = "running"
               THEN [sessions[t] EXCEPT !.overlapped = TRUE]
               ELSE sessions[t]]
    /\ UNCHANGED <<auth_group, auth_membership, auth_permission,
                   membership_groups, permission_groups, encryption_enabled,
                   last, identity_map, audit_log, response>>

\* The call moves on to its next statement.
Goto(s, pc, group_id, found, pending) ==
    /\ sessions' = [sessions EXCEPT
                       ![s].pc = pc, ![s].group_id = group_id,
                       ![s].found = found, ![s].pending = pending]
    /\ last' = last

\* `return result`; a commit() before it has ended the transaction.
Return(s, result, found) ==
    /\ sessions' = [sessions EXCEPT
                       ![s].pc = "done", ![s].status = "returned",
                       ![s].result = result, ![s].found = found,
                       ![s].pending = <<>>]
    /\ last' = Call(sessions[s].op, sessions[s].client, sessions[s].args,
                    result, found)

\* Mutant: the handler returns without rolling back.
Rollback_Missing(pending) == pending

\* self.db.rollback(): what the transaction wrote is dropped.
Rollback(pending) == <<>>

\* except Exception: self.db.rollback(); return False
\* (pc stays at the statement that raised)
ReturnFalseAfterRollback(s, found) ==
    /\ sessions' = [sessions EXCEPT
                       ![s].status = "returned",
                       ![s].result = FALSE, ![s].found = found,
                       ![s].pending = Rollback(sessions[s].pending)]
    /\ last' = Call(sessions[s].op, sessions[s].client, sessions[s].args,
                    FALSE, found)

\* An exception leaves the method; the caller's `finally: db.close()` ends
\* the transaction.  (pc stays at the statement that raised)
Raise(s) ==
    /\ sessions' = [sessions EXCEPT
                       ![s].status = "raised",
                       ![s].result = FALSE, ![s].pending = <<>>]
    /\ last' = last

\* add_role: self.db.execute(INSERT ... ON CONFLICT (creator, role) ...)
add_role_execute(s, F) ==
    LET client == sessions[s].client
        role == sessions[s].args[1]
        found == Before(RoleState(client, role), FALSE)
    IN  /\ At(s, "add_role", "execute")
        /\ \E fault \in F :
               IF fault = "none"
               THEN /\ ~Locked(s, "auth_group", <<client, role>>)
                    /\ Goto(s, "commit", 0, found,
                            <<Statement("auth_group", <<client, role>>,
                                        IF found.role = "absent"
                                        THEN "insert" ELSE "update")>>)
               ELSE ReturnFalseAfterRollback(s, found)
        /\ UNCHANGED <<auth_group, auth_membership, auth_permission,
                       membership_groups, permission_groups,
                       encryption_enabled, identity_map, audit_log, response>>

\* Mutant: the statement is a plain INSERT and the table has no unique
\* constraint.
add_role_commit_Insert(s, F) ==
    /\ At(s, "add_role", "commit")
    /\ auth_group' =
           Append(auth_group,
                  [creator |-> sessions[s].client,
                   role |-> sessions[s].args[1],
                   description |-> sessions[s].args[2], is_active |-> TRUE])
    /\ Return(s, TRUE, sessions[s].found)
    /\ UNCHANGED <<auth_membership, auth_permission, membership_groups,
                   permission_groups, encryption_enabled, identity_map, audit_log, response>>

\* add_role: self.db.commit(); return True
add_role_commit(s, F) ==
    LET client == sessions[s].client
        role == sessions[s].args[1]
        description == sessions[s].args[2]
    IN  /\ At(s, "add_role", "commit")
        /\ \E fault \in F :
               IF fault = "none"
               THEN /\ auth_group' = UpsertGroup(client, role, description)
                    /\ Return(s, TRUE, sessions[s].found)
               ELSE /\ auth_group' = auth_group
                    /\ ReturnFalseAfterRollback(s, sessions[s].found)
        /\ UNCHANGED <<auth_membership, auth_permission, membership_groups,
                       permission_groups, encryption_enabled, identity_map, audit_log, response>>

\* del_role: group = query(AuthGroup).filter(creator, role).first();
\* `if group and group.is_active` is decided on the row as it was read.
del_role_query(s, F) ==
    LET client == sessions[s].client
        role == sessions[s].args[1]
        found == Before(RoleState(client, role), FALSE)
    IN  /\ At(s, "del_role", "query")
        /\ \E fault \in F :
               IF fault # "none" THEN Raise(s)
               ELSE IF found.role = "active"
               THEN Goto(s, "commit", AnyGroup(client, role), found, <<>>)
               ELSE Return(s, FALSE, found)
        /\ UNCHANGED <<auth_group, auth_membership, auth_permission,
                       membership_groups, permission_groups,
                       encryption_enabled, identity_map, audit_log, response>>

\* del_role: group.is_active = False; self.db.commit(); return True
\* (the flush issues UPDATE auth_group SET is_active = false WHERE id = :id)
del_role_commit(s, F) ==
    LET client == sessions[s].client
        role == sessions[s].args[1]
        group == sessions[s].group_id
    IN  /\ At(s, "del_role", "commit")
        /\ \E fault \in F :
               IF fault = "none"
               THEN /\ ~Locked(s, "auth_group", <<client, role>>)
                    /\ auth_group' =
                           [auth_group EXCEPT ![group].is_active = FALSE]
                    /\ Return(s, TRUE, sessions[s].found)
               ELSE /\ auth_group' = auth_group
                    /\ Raise(s)
        /\ UNCHANGED <<auth_membership, auth_permission, membership_groups,
                       permission_groups, encryption_enabled, identity_map, audit_log, response>>

\* add_membership: SELECT id FROM auth_group WHERE ... is_active = true;
\* `if not row: return False`  (the statement stands before the try block)
add_membership_select(s, F) ==
    LET client == sessions[s].client
        user == sessions[s].args[1]
        role == sessions[s].args[2]
        found == Before(RoleState(client, role),
                        has_membership(client, user, role))
        group_id == SelectGroupId(client, role)
    IN  /\ At(s, "add_membership", "select")
        /\ \E fault \in F :
               IF fault # "none" THEN Raise(s)
               ELSE IF group_id = 0 THEN Return(s, FALSE, found)
               ELSE Goto(s, "upsert", group_id, found, <<>>)
        /\ UNCHANGED <<auth_group, auth_membership, auth_permission,
                       membership_groups, permission_groups,
                       encryption_enabled, identity_map, audit_log, response>>

\* add_membership: INSERT INTO auth_membership ... ON CONFLICT (creator,
\* "user") DO UPDATE ... RETURNING id
add_membership_upsert(s, F) ==
    LET client == sessions[s].client
        encrypted_user == _get_encrypted_user(sessions[s].args[1])
    IN  /\ At(s, "add_membership", "upsert")
        /\ \E fault \in F :
               IF fault = "none"
               THEN /\ ~Locked(s, "auth_membership",
                               <<client, encrypted_user>>)
                    /\ Goto(s, "link", sessions[s].group_id,
                            sessions[s].found,
                            <<Statement("auth_membership",
                                  <<client, encrypted_user>>,
                                  IF UpsertMembershipId(client, encrypted_user)
                                         > Len(auth_membership)
                                  THEN "insert" ELSE "update")>>)
               ELSE ReturnFalseAfterRollback(s, sessions[s].found)
        /\ UNCHANGED <<auth_group, auth_membership, auth_permission,
                       membership_groups, permission_groups,
                       encryption_enabled, identity_map, audit_log, response>>

\* add_membership: INSERT INTO membership_groups ... ON CONFLICT DO NOTHING
\* (whether the link row is there is decided when the statement runs)
add_membership_link(s, F) ==
    LET client == sessions[s].client
        encrypted_user == _get_encrypted_user(sessions[s].args[1])
        group_id == sessions[s].group_id
        key == <<client, encrypted_user, group_id>>
        membership_id == UpsertMembershipId(client, encrypted_user)
    IN  /\ At(s, "add_membership", "link")
        /\ \E fault \in F :
               IF fault = "none"
               THEN /\ ~Locked(s, "membership_groups", key)
                    /\ Goto(s, "commit", group_id, sessions[s].found,
                            Append(sessions[s].pending,
                                Statement("membership_groups", key,
                                    IF <<membership_id, group_id>>
                                           \in membership_groups
                                    THEN "nothing" ELSE "insert")))
               ELSE ReturnFalseAfterRollback(s, sessions[s].found)
        /\ UNCHANGED <<auth_group, auth_membership, auth_permission,
                       membership_groups, permission_groups,
                       encryption_enabled, identity_map, audit_log, response>>

\* add_membership: self.db.commit(); return True
add_membership_commit(s, F) ==
    LET client == sessions[s].client
        encrypted_user == _get_encrypted_user(sessions[s].args[1])
        group_id == sessions[s].group_id
        membership_id == UpsertMembershipId(client, encrypted_user)
    IN  /\ At(s, "add_membership", "commit")
        /\ \E fault \in F :
               IF fault = "none"
               THEN /\ auth_membership' =
                           UpsertMembership(client, encrypted_user)
                    /\ membership_groups' =
                           IF sessions[s].pending[2].effect = "insert"
                           THEN InsertLink(membership_groups, membership_id,
                                           group_id)
                           ELSE membership_groups
                    /\ Return(s, TRUE, sessions[s].found)
               ELSE /\ UNCHANGED <<auth_membership, membership_groups>>
                    /\ ReturnFalseAfterRollback(s, sessions[s].found)
        /\ UNCHANGED <<auth_group, auth_permission, permission_groups,
                       encryption_enabled, identity_map, audit_log, response>>

\* del_membership: `if not self.has_membership(user, role): return True`
del_membership_check(s, F) ==
    LET client == sessions[s].client
        user == sessions[s].args[1]
        role == sessions[s].args[2]
        found == Before(RoleState(client, role),
                        has_membership(client, user, role))
    IN  /\ At(s, "del_membership", "check")
        /\ \E fault \in F :
               IF fault # "none" THEN Raise(s)
               ELSE IF ~found.linked THEN Return(s, TRUE, found)
               ELSE Goto(s, "remove", 0, found, <<>>)
        /\ UNCHANGED <<auth_group, auth_membership, auth_permission,
                       membership_groups, permission_groups,
                       encryption_enabled, identity_map, audit_log, response>>

\* del_membership: the two queries, membership.groups.remove(group),
\* self.db.commit(); return True
del_membership_remove(s, F) ==
    LET client == sessions[s].client
        user == sessions[s].args[1]
        role == sessions[s].args[2]
        group == AnyGroup(client, role)
        membership == AnyMembership(client, user)
    IN  /\ At(s, "del_membership", "remove")
        /\ \E fault \in F :
               IF fault # "none"
               THEN /\ membership_groups' = membership_groups
                    /\ Raise(s)
               ELSE /\ membership_groups' =
                           IF /\ group # 0
                              /\ membership # 0
                              /\ group \in AuthMembership_groups(membership)
                           THEN DeleteLink(membership_groups, membership,
                                           group)
                           ELSE membership_groups
                    /\ Return(s, TRUE, sessions[s].found)
        /\ UNCHANGED <<auth_group, auth_membership, auth_permission,
                       permission_groups, encryption_enabled, identity_map, audit_log, response>>

\* add_permission: `if self.has_permission(role, name): return True`
add_permission_check(s, F) ==
    LET client == sessions[s].client
        role == sessions[s].args[1]
        name == sessions[s].args[2]
        found == Before(RoleState(client, role),
                        has_permission(client, role, name))
    IN  /\ At(s, "add_permission", "check")
        /\ \E fault \in F :
               IF fault # "none" THEN Raise(s)
               ELSE IF found.linked THEN Return(s, TRUE, found)
               ELSE Goto(s, "select", 0, found, <<>>)
        /\ UNCHANGED <<auth_group, auth_membership, auth_permission,
                       membership_groups, permission_groups,
                       encryption_enabled, identity_map, audit_log, response>>

\* add_permission: SELECT id FROM auth_group WHERE ... is_active = true;
\* `if not row: return False`  (the statement stands before the try block)
add_permission_select(s, F) ==
    LET client == sessions[s].client
        role == sessions[s].args[1]
        group_id == SelectGroupId(client, role)
    IN  /\ At(s, "add_permission", "select")
        /\ \E fault \in F :
               IF fault # "none" THEN Raise(s)
               ELSE IF group_id = 0
               THEN Return(s, FALSE, sessions[s].found)
               ELSE Goto(s, "upsert", group_id, sessions[s].found, <<>>)
        /\ UNCHANGED <<auth_group, auth_membership, auth_permission,
                       membership_groups, permission_groups,
                       encryption_enabled, identity_map, audit_log, response>>

\* add_permission: INSERT INTO auth_permission ... ON CONFLICT (creator,
\* name) DO UPDATE ... RETURNING id
add_permission_upsert(s, F) ==
    LET client == sessions[s].client
        encrypted_name == _get_encrypted_permission(sessions[s].args[2])
    IN  /\ At(s, "add_permission", "upsert")
        /\ \E fault \in F :
               IF fault = "none"
               THEN /\ ~Locked(s, "auth_permission",
                               <<client, encrypted_name>>)
                    /\ Goto(s, "link", sessions[s].group_id,
                            sessions[s].found,
                            <<Statement("auth_permission",
                                  <<client, encrypted_name>>,
                                  IF UpsertPermissionId(client, encrypted_name)
                                         > Len(auth_permission)
                                  THEN "insert" ELSE "update")>>)
               ELSE ReturnFalseAfterRollback(s, sessions[s].found)
        /\ UNCHANGED <<auth_group, auth_membership, auth_permission,
                       membership_groups, permission_groups,
                       encryption_enabled, identity_map, audit_log, response>>

\* add_permission: INSERT INTO permission_groups ... ON CONFLICT DO NOTHING
add_permission_link(s, F) ==
    LET client == sessions[s].client
        encrypted_name == _get_encrypted_permission(sessions[s].args[2])
        group_id == sessions[s].group_id
        key == <<client, encrypted_name, group_id>>
        perm_id == UpsertPermissionId(client, encrypted_name)
    IN  /\ At(s, "add_permission", "link")
        /\ \E fault \in F :
               IF fault = "none"
               THEN /\ ~Locked(s, "permission_groups", key)
                    /\ Goto(s, "commit", group_id, sessions[s].found,
                            Append(sessions[s].pending,
                                Statement("permission_groups", key,
                                    IF <<perm_id, group_id>>
                                           \in permission_groups
                                    THEN "nothing" ELSE "insert")))
               ELSE ReturnFalseAfterRollback(s, sessions[s].found)
        /\ UNCHANGED <<auth_group, auth_membership, auth_permission,
                       membership_groups, permission_groups,
                       encryption_enabled, identity_map, audit_log, response>>

\* add_permission: self.db.commit(); return True
add_permission_commit(s, F) ==
    LET client == sessions[s].client
        encrypted_name == _get_encrypted_permission(sessions[s].args[2])
        group_id == sessions[s].group_id
        perm_id == UpsertPermissionId(client, encrypted_name)
    IN  /\ At(s, "add_permission", "commit")
        /\ \E fault \in F :
               IF fault = "none"
               THEN /\ auth_permission' =
                           UpsertPermission(client, encrypted_name)
                    /\ permission_groups' =
                           IF sessions[s].pending[2].effect = "insert"
                           THEN InsertLink(permission_groups, perm_id,
                                           group_id)
                           ELSE permission_groups
                    /\ Return(s, TRUE, sessions[s].found)
               ELSE /\ UNCHANGED <<auth_permission, permission_groups>>
                    /\ ReturnFalseAfterRollback(s, sessions[s].found)
        /\ UNCHANGED <<auth_group, auth_membership, membership_groups,
                       encryption_enabled, identity_map, audit_log, response>>

\* del_permission: `if not self.has_permission(role, name): return True`
del_permission_check(s, F) ==
    LET client == sessions[s].client
        role == sessions[s].args[1]
        name == sessions[s].args[2]
        found == Before(RoleState(client, role),
                        has_permission(client, role, name))
    IN  /\ At(s, "del_permission", "check")
        /\ \E fault \in F :
               IF fault # "none" THEN Raise(s)
               ELSE IF ~found.linked THEN Return(s, TRUE, found)
               ELSE Goto(s, "remove", 0, found, <<>>)
        /\ UNCHANGED <<auth_group, auth_membership, auth_permission,
                       membership_groups, permission_groups,
                       encryption_enabled, identity_map, audit_log, response>>

\* del_permission: the two queries, permission.groups.remove(group),
\* self.db.commit(); return True
del_permission_remove(s, F) ==
    LET client == sessions[s].client
        role == sessions[s].args[1]
        name == sessions[s].args[2]
        group == AnyGroup(client, role)
        permission == AnyPermission(client, name)
    IN  /\ At(s, "del_permission", "remove")
        /\ \E fault \in F :
               IF fault # "none"
               THEN /\ permission_groups' = permission_groups
                    /\ Raise(s)
               ELSE /\ permission_groups' =
                           IF /\ group # 0
                              /\ permission # 0
                              /\ group \in AuthPermission_groups(permission)
                           THEN DeleteLink(permission_groups, permission,
                                           group)
                           ELSE permission_groups
                    /\ Return(s, TRUE, sessions[s].found)
        /\ UNCHANGED <<auth_group, auth_membership, auth_permission,
                       membership_groups, encryption_enabled, identity_map, audit_log, response>>

\* The calls of the sessions S with arguments from the given sets, one
\* statement at a time.
Calls(S, C, R, U, P, D) ==
    \/ \E s \in S, c \in C, r \in R, d \in D :
           Begin(s, "add_role", c, <<r, d>>, "execute")
    \/ \E s \in S, c \in C, r \in R :
           Begin(s, "del_role", c, <<r>>, "query")
    \/ \E s \in S, c \in C, u \in U, r \in R :
           Begin(s, "add_membership", c, <<u, r>>, "select")
    \/ \E s \in S, c \in C, u \in U, r \in R :
           Begin(s, "del_membership", c, <<u, r>>, "check")
    \/ \E s \in S, c \in C, r \in R, p \in P :
           Begin(s, "add_permission", c, <<r, p>>, "check")
    \/ \E s \in S, c \in C, r \in R, p \in P :
           Begin(s, "del_permission", c, <<r, p>>, "check")

Statements(S, F) ==
    \/ \E s \in S : add_role_execute(s, F)
    \/ \E s \in S : add_role_commit(s, F)
    \/ \E s \in S : del_role_query(s, F)
    \/ \E s \in S : del_role_commit(s, F)
    \/ \E s \in S : add_membership_select(s, F)
    \/ \E s \in S : add_membership_upsert(s, F)
    \/ \E s \in S : add_membership_link(s, F)
    \/ \E s \in S : add_membership_commit(s, F)
    \/ \E s \in S : del_membership_check(s, F)
    \/ \E s \in S : del_membership_remove(s, F)
    \/ \E s \in S : add_permission_check(s, F)
    \/ \E s \in S : add_permission_select(s, F)
    \/ \E s \in S : add_permission_upsert(s, F)
    \/ \E s \in S : add_permission_link(s, F)
    \/ \E s \in S : add_permission_commit(s, F)
    \/ \E s \in S : del_permission_check(s, F)
    \/ \E s \in S : del_permission_remove(s, F)

\* Two sessions of one tenant whose calls overlap; the store does not fail.
NextConcurrent ==
    \/ Calls(Sessions, OneClient, {"admin"}, {"john"}, {"read"}, {Null})
    \/ Statements(Sessions, {"none"})

SpecConcurrent == InitEncrypted /\ [][NextConcurrent]_vars

\* One session whose statements and commits can fail.
NextFaults ==
    \/ Calls({"s1"}, OneClient, {"admin"}, {"john"}, {"read"}, {Null})
    \/ Statements({"s1"}, Faults)

SpecFaults == InitEncrypted /\ [][NextFaults]_vars

-----------------------------------------------------------------------------
(* POST /api/role/<role>: routes.create_role on the AuthorizationService   *)
(* of auth/service.py, which looks the role up and then inserts it.        *)

\* create_role: the request has a valid role name and tenant key;
\* db = SessionLocal(); auth_service.add_role(role)
create_role(s, client, role) ==
    Begin(s, "create_role", client, <<role>>, "query")

\* add_role: existing = query(AuthGroup).filter(creator, role).first();
\* an active role returns True at once.
service_add_role_query(s) ==
    LET client == sessions[s].client
        role == sessions[s].args[1]
        found == Before(RoleState(client, role), FALSE)
    IN  /\ At(s, "create_role", "query")
        /\ IF found.role = "active"
           THEN Return(s, TRUE, found)
           ELSE Goto(s, "commit", AnyGroup(client, role), found, <<>>)
        /\ UNCHANGED <<auth_group, auth_membership, auth_permission,
                       membership_groups, permission_groups,
                       encryption_enabled, identity_map, audit_log, response>>

\* add_role: either existing.is_active = True, or self.db.add(new_group);
\* then self.db.commit(); return True.  The INSERT of a (creator, role)
\* that is in the table by now violates uq_auth_group_creator_role: the
\* IntegrityError leaves add_role and create_role (which has no except
\* clause), and the request is answered with status 500.
service_add_role_commit(s) ==
    LET client == sessions[s].client
        role == sessions[s].args[1]
        existing == sessions[s].group_id
    IN  /\ At(s, "create_role", "commit")
        /\ IF sessions[s].found.role = "inactive"
           THEN /\ auth_group' =
                       [auth_group EXCEPT ![existing].is_active = TRUE]
                /\ Return(s, TRUE, sessions[s].found)
           ELSE IF AnyGroup(client, role) # 0
           THEN /\ auth_group' = auth_group
                /\ Raise(s)
           ELSE /\ auth_group' =
                       Append(auth_group,
                              [creator |-> client, role |-> role,
                               description |-> Null, is_active |-> TRUE])
                /\ Return(s, TRUE, sessions[s].found)
        /\ UNCHANGED <<auth_membership, auth_permission, membership_groups,
                       permission_groups, encryption_enabled, identity_map, audit_log, response>>

\* The role table as earlier requests can have left it: empty, or with the
\* role "admin" active or soft-deleted.
GroupStores ==
    {<<>>} \cup
    {<<[creator |-> c, role |-> "admin", description |-> Null,
        is_active |-> a]>> : c \in OneClient, a \in BOOLEAN}

InitRoutes ==
    /\ auth_group \in GroupStores
    /\ auth_membership = <<>>
    /\ auth_permission = <<>>
    /\ membership_groups = {}
    /\ permission_groups = {}
    /\ encryption_enabled = TRUE
    /\ last = Call("init", "", <<>>, FALSE, Before("n/a", FALSE))
    /\ sessions = [s \in Sessions |-> IdleSession]
    /\ identity_map = NoObjects
    /\ audit_log = <<>>
    /\ response = NoExchange

\* Requests of one tenant served at the same time, each on its own session.
NextRoutes ==
    \/ \E s \in Sessions, c \in OneClient, r \in Roles : create_role(s, c, r)
    \/ \E s \in Sessions : service_add_role_query(s)
    \/ \E s \in Sessions : service_add_role_commit(s)

SpecRoutes == InitRoutes /\ [][NextRoutes]_vars

-----------------------------------------------------------------------------
(* Properties                                                              *)

\* C1: in every reachable state, for every tenant c, user u and permission p,
\* user_has_permission(u, p) is true exactly when some role r has both
\* has_membership(u, r) and has_permission(r, p) true.
C1_Composition ==
    \A c \in Clients, u \in Users, p \in Permissions :
        user_has_permission(c, u, p)
            <=> \E r \in Roles : /\ has_membership(c, u, r)
                                 /\ has_permission(c, r, p)

\* C1 witness: a user in two roles of which exactly one holds the permission,
\* next to a user who is a member of a role without it.
C1_Witness ==
    \E c \in Clients, u, v \in Users, p \in Permissions, r1, r2 \in Roles :
        /\ r1 # r2 /\ u # v
        /\ has_membership(c, u, r1) /\ has_membership(c, u, r2)
        /\ has_permission(c, r1, p) /\ ~has_permission(c, r2, p)
        /\ user_has_permission(c, u, p)
        /\ has_membership(c, v, r2) /\ ~has_membership(c, v, r1)
        /\ ~user_has_permission(c, v, p)

\* Every query result of one tenant, over the names the tenants use.
Queries(c) ==
    [get_roles |-> get_roles(c),
     get_permissions |-> [r \in SharedRoles |-> get_permissions(c, r)],
     get_user_permissions |->
         [u \in SharedUsers |-> get_user_permissions(c, u)],
     get_user_roles |-> [u \in SharedUsers |-> get_user_roles(c, u)],
     get_role_members |-> [r \in SharedRoles |-> get_role_members(c, r)],
     which_roles_can |-> [p \in SharedPermissions |-> which_roles_can(c, p)],
     which_users_can |-> [p \in SharedPermissions |-> which_users_can(c, p)],
     has_membership |->
         [u \in SharedUsers, r \in SharedRoles |-> has_membership(c, u, r)],
     has_permission |->
         [r \in SharedRoles, p \in SharedPermissions |->
              has_permission(c, r, p)],
     user_has_permission |->
         [u \in SharedUsers, p \in SharedPermissions |->
              user_has_permission(c, u, p)]]

\* C2: a write made by a service bound to tenant c1 leaves every query result
\* of every other tenant c2 as it was, also when both tenants use the same
\* role, user and permission names.  (The queries read the tables only, so
\* a call that leaves the tables as they were changes no result.)
C2_TenantIsolation ==
    [][\A c1, c2 \in Clients :
           (c1 # c2 /\ last'.client = c1 /\ tables' # tables)
               => Queries(c2)' = Queries(c2)]_vars

\* C2 witness: two tenants hold the same role, user and permission names,
\* fully linked, and the first has just soft-deleted its role: its own
\* answer changed, the other tenant still answers true.
C2_Witness ==
    \E c1, c2 \in Clients :
        /\ c1 # c2
        /\ last.op = "del_role" /\ last.client = c1 /\ last.result = TRUE
        /\ last.args = <<"admin">>
        /\ <<AnyMembership(c1, "john"), AnyGroup(c1, "admin")>>
               \in membership_groups
        /\ <<AnyPermission(c1, "read"), AnyGroup(c1, "admin")>>
               \in permission_groups
        /\ ~user_has_permission(c1, "john", "read")
        /\ user_has_permission(c2, "john", "read")

\* C3: add_role on a soft-deleted role (the third call of add_role(c, r);
\* del_role(c, r); add_role(c, r)) returns true and revives the row the
\* deletion left behind: the role has the same id as before, is active and
\* listed by get_roles again, and no second row for (c, r) exists.
C3_Revival ==
    [][\A c \in Clients, r \in Roles :
           (/\ last'.op = "add_role" /\ last'.client = c
            /\ last'.args[1] = r /\ last'.before.role = "inactive")
               => /\ last'.result = TRUE
                  /\ ~(\E e \in Range(get_roles(c)) : e.role = r)
                  /\ AnyGroup(c, r)' = AnyGroup(c, r)
                  /\ Len(auth_group') = Len(auth_group)
                  /\ Cardinality({g \in DOMAIN auth_group' :
                                     /\ auth_group'[g].creator = c
                                     /\ auth_group'[g].role = r}) = 1
                  /\ auth_group'[AnyGroup(c, r)].is_active
                  /\ \E e \in Range(get_roles(c)') : e.role = r]_vars

\* C3 witness: the revived role is the older of two rows, so reusing its id
\* differs from inserting a new row.
C3_Witness ==
    /\ last.op = "add_role" /\ last.before.role = "inactive"
    /\ last.result = TRUE
    /\ Len(auth_group) = 2
    /\ AnyGroup(last.client, last.args[1]) = 1
    /\ auth_group[1].is_active

\* C4: add_role returns true and leaves exactly one row for (c, r), which is
\* active; a second add_role(c, r) right after the first returns true as the
\* first did and leaves every table (roles, links, active flags) as the first
\* left it.
C4_AddRoleIdempotent ==
    [][\A c \in Clients, r \in Roles :
           (last'.op = "add_role" /\ last'.client = c /\ last'.args[1] = r)
               => /\ last'.result = TRUE
                  /\ Cardinality({g \in DOMAIN auth_group' :
                                     /\ auth_group'[g].creator = c
                                     /\ auth_group'[g].role = r}) = 1
                  /\ auth_group'[AnyGroup(c, r)'].is_active
                  /\ (/\ last.op = "add_role" /\ last.client = c
                      /\ last.args = last'.args)
                         => (last.result = TRUE /\ tables' = tables)]_vars

\* C4 witness: add_role was repeated on an active role that has a member and
\* a permission, next to a soft-deleted role.
C4_Witness ==
    /\ last.op = "add_role" /\ last.before.role = "active"
    /\ last.result = TRUE
    /\ \E m \in DOMAIN auth_membership :
           <<m, AnyGroup(last.client, last.args[1])>> \in membership_groups
    /\ \E q \in DOMAIN auth_permission :
           <<q, AnyGroup(last.client, last.args[1])>> \in permission_groups
    /\ \E r \in Roles : RoleState(last.client, r) = "inactive"

\* C5: add_membership(u, r) on a user who already is an active member of the
\* active role r returns true and adds no Membership row and no link row;
\* add_permission(r, p) on a role that already holds p returns true and
\* changes nothing.
C5_AddExisting ==
    [][/\ (last'.op = "add_membership" /\ last'.before.linked)
              => /\ last'.result = TRUE
                 /\ last'.before.role = "active"
                 /\ Len(auth_membership') = Len(auth_membership)
                 /\ membership_groups' = membership_groups
       /\ (last'.op = "add_permission" /\ last'.before.linked)
              => /\ last'.result = TRUE
                 /\ last'.before.role = "active"
                 /\ tables' = tables]_vars

\* C5 witness: add_membership was called for a user who already was a member
\* of the role, and of another role too.
C5_Witness ==
    /\ last.op = "add_membership" /\ last.before.linked
    /\ last.result = TRUE
    /\ \A r \in Roles : has_membership(last.client, last.args[1], r)

\* C6: del_role(r) returns true exactly when a row for (tenant, r) existed
\* with is_active = true right before the call; after a true return the role
\* is inactive and nothing else has changed; after a false return (absent or
\* already soft-deleted role) nothing has changed.
C6_DelRole ==
    [][\A c \in Clients, r \in Roles :
           (last'.op = "del_role" /\ last'.client = c /\ last'.args[1] = r)
               => /\ last'.result
                         <=> (/\ AnyGroup(c, r) # 0
                              /\ auth_group[AnyGroup(c, r)].is_active)
                  /\ last'.result =>
                         /\ auth_group' =
                                [auth_group EXCEPT
                                    ![AnyGroup(c, r)].is_active = FALSE]
                         /\ ~(\E e \in Range(get_roles(c)') : e.role = r)
                         /\ UNCHANGED <<auth_membership, auth_permission,
                                        membership_groups, permission_groups>>
                  /\ ~last'.result => tables' = tables]_vars

\* C6 witness: del_role was called on a role that was soft-deleted already
\* and still has its link rows.
C6_Witness ==
    /\ last.op = "del_role" /\ last.before.role = "inactive"
    /\ last.result = FALSE
    /\ \E m \in DOMAIN auth_membership :
           <<m, AnyGroup(last.client, last.args[1])>> \in membership_groups

\* C7: del_membership(u, r) and del_permission(r, p) return true, afterwards
\* has_membership(u, r) / has_permission(r, p) is false, and the only row
\* that can be gone is the one link (u, r) / (p, r): the Membership and
\* Permission rows, the roles and every other link are as before.
C7_Unlink ==
    [][/\ \A c \in Clients, u \in Users, r \in Roles :
              (/\ last'.op = "del_membership" /\ last'.client = c
               /\ last'.args = <<u, r>>)
                  => /\ last'.result = TRUE
                     /\ ~has_membership(c, u, r)'
                     /\ membership_groups' \subseteq membership_groups
                     /\ (membership_groups \ membership_groups') \subseteq
                            {<<AnyMembership(c, u), AnyGroup(c, r)>>}
                     /\ UNCHANGED <<auth_group, auth_membership,
                                    auth_permission, permission_groups>>
       /\ \A c \in Clients, r \in Roles, p \in Permissions :
              (/\ last'.op = "del_permission" /\ last'.client = c
               /\ last'.args = <<r, p>>)
                  => /\ last'.result = TRUE
                     /\ ~has_permission(c, r, p)'
                     /\ permission_groups' \subseteq permission_groups
                     /\ (permission_groups \ permission_groups') \subseteq
                            {<<AnyPermission(c, p), AnyGroup(c, r)>>}
                     /\ UNCHANGED <<auth_group, auth_membership,
                                    auth_permission, membership_groups>>]_vars

\* C7 witness: a user was removed from one role and is still a member of
\* another.
C7_Witness ==
    /\ last.op = "del_membership" /\ last.before.linked
    /\ last.result = TRUE
    /\ ~has_membership(last.client, last.args[1], last.args[2])
    /\ \E r \in Roles : has_membership(last.client, last.args[1], r)

\* C8: add_membership(u, r) and add_permission(r, p) on a role that is absent
\* or inactive for the tenant return false and create no Membership row, no
\* Permission row and no link row; the only call after which a new
\* Membership row exists is an add_membership that returned true on an
\* active role (no read and no failed add creates one).
C8_AddNeedsActiveRole ==
    [][/\ (/\ last'.op \in {"add_membership", "add_permission"}
           /\ last'.before.role \in {"absent", "inactive"})
              => (last'.result = FALSE /\ tables' = tables)
       /\ Len(auth_membership') > Len(auth_membership)
              => /\ last'.op = "add_membership"
                 /\ last'.result = TRUE
                 /\ last'.before.role = "active"]_vars

\* C8 witness: add_membership failed on a soft-deleted role while the tenant
\* has no Membership row at all.
C8_Witness ==
    /\ last.op = "add_membership" /\ last.before.role = "inactive"
    /\ last.result = FALSE
    /\ auth_membership = <<>>

\* C9: in every reachable state, role r is listed by which_roles_can(p)
\* exactly when p is listed by get_permissions(r), and the entry (u, r) is
\* listed by get_role_members(r) exactly when r is listed by
\* get_user_roles(u).
C9_ReverseConsistency ==
    \A c \in Clients :
        /\ \A r \in Roles, p \in Permissions :
               ([role |-> r] \in Range(which_roles_can(c, p)))
                   <=> ([name |-> p] \in Range(get_permissions(c, r)))
        /\ \A u \in Users, r \in Roles :
               ([user |-> u, role |-> r] \in Range(get_role_members(c, r)))
                   <=> (\E e \in Range(get_user_roles(c, u)) : e.role = r)

\* C9 witness: both directions are exercised: one role lists the permission
\* and a member, while a soft-deleted role still has its link rows to the
\* same permission and to a member.
C9_Witness ==
    \E c \in Clients, p \in Permissions, u \in Users, r1, r2 \in Roles :
        /\ [role |-> r1] \in Range(which_roles_can(c, p))
        /\ [user |-> u, role |-> r1] \in Range(get_role_members(c, r1))
        /\ RoleState(c, r2) = "inactive"
        /\ <<AnyPermission(c, p), AnyGroup(c, r2)>> \in permission_groups
        /\ \E m \in DOMAIN auth_membership :
               <<m, AnyGroup(c, r2)>> \in membership_groups

\* (u, r) qualifies for p, read off the tables: r is an active role of the
\* tenant linked to the active permission p, and the active membership of u
\* is linked to r.
Qualifies(c, u, r, p) ==
    \E g \in DOMAIN auth_group :
        /\ auth_group[g].creator = c /\ auth_group[g].role = r
        /\ auth_group[g].is_active
        /\ \E q \in DOMAIN auth_permission :
               /\ auth_permission[q].creator = c
               /\ auth_permission[q].is_active
               /\ decrypt_sensitive_data(auth_permission[q].name) = p
               /\ <<q, g>> \in permission_groups
        /\ \E m \in DOMAIN auth_membership :
               /\ auth_membership[m].creator = c
               /\ auth_membership[m].is_active
               /\ decrypt_sensitive_data(auth_membership[m].user) = u
               /\ <<m, g>> \in membership_groups

\* C10: which_users_can(p) holds exactly one {user, role} entry for every
\* pair (u, r) where r is an active role linked to p and u an active member
\* of r (so a user with two such roles appears twice), and nothing else.
C10_WhichUsersCan ==
    \A c \in Clients, p \in Permissions :
        /\ \A u \in Users, r \in Roles :
               Count(which_users_can(c, p), [user |-> u, role |-> r])
                   = IF Qualifies(c, u, r, p) THEN 1 ELSE 0
        /\ \A e \in Range(which_users_can(c, p)) :
               e \in [user : Users, role : Roles]

\* C10 witness: one user qualifies through two roles and appears twice.
C10_Witness ==
    \E c \in Clients, p \in Permissions, u \in Users :
        /\ \A r \in Roles : Qualifies(c, u, r, p)
        /\ Cardinality({i \in DOMAIN which_users_can(c, p) :
                            which_users_can(c, p)[i].user = u}) = 2

\* C11: in every reachable state, calls overlapping on two sessions
\* included, no two auth_group rows share (creator, role), no two
\* auth_membership rows share (creator, user), no two auth_permission rows
\* share (creator, name), and at most one link row connects a user with a
\* role and a permission with a role.
C11_Uniqueness ==
    /\ \A g1, g2 \in DOMAIN auth_group :
           (/\ auth_group[g1].creator = auth_group[g2].creator
            /\ auth_group[g1].role = auth_group[g2].role) => g1 = g2
    /\ \A m1, m2 \in DOMAIN auth_membership :
           (/\ auth_membership[m1].creator = auth_membership[m2].creator
            /\ auth_membership[m1].user = auth_membership[m2].user)
               => m1 = m2
    /\ \A p1, p2 \in DOMAIN auth_permission :
           (/\ auth_permission[p1].creator = auth_permission[p2].creator
            /\ auth_permission[p1].name = auth_permission[p2].name)
               => p1 = p2
    /\ \A l1, l2 \in membership_groups :
           (/\ auth_membership[l1[1]].creator = auth_membership[l2[1]].creator
            /\ auth_membership[l1[1]].user = auth_membership[l2[1]].user
            /\ auth_group[l1[2]].creator = auth_group[l2[2]].creator
            /\ auth_group[l1[2]].role = auth_group[l2[2]].role) => l1 = l2
    /\ \A l1, l2 \in permission_groups :
           (/\ auth_permission[l1[1]].creator = auth_permission[l2[1]].creator
            /\ auth_permission[l1[1]].name = auth_permission[l2[1]].name
            /\ auth_group[l1[2]].creator = auth_group[l2[2]].creator
            /\ auth_group[l1[2]].role = auth_group[l2[2]].role) => l1 = l2

\* C11 witness: two overlapping add_permission calls for the same role and
\* permission both found the permission not held, both ran the upsert and
\* the link insert and both returned true; a membership row exists too.
C11_Witness ==
    /\ \A s \in Sessions :
           /\ sessions[s].op = "add_permission"
           /\ sessions[s].status = "returned" /\ sessions[s].result
           /\ sessions[s].overlapped
           /\ ~sessions[s].found.linked
    /\ Len(auth_permission) = 1 /\ Len(auth_group) = 1
    /\ permission_groups = {<<1, 1>>}
    /\ Len(auth_membership) = 1

\* C12: an add_role(c, r) call returns true whatever the other session does
\* meanwhile (another add_role(c, r) included), and in the state it commits
\* there is exactly one auth_group row for (c, r), which is active.
C12_ConcurrentAddRole ==
    [][\A s \in Sessions, c \in Clients, r \in Roles :
           (/\ sessions[s].status = "running"
            /\ sessions[s].op = "add_role"
            /\ sessions[s].client = c /\ sessions[s].args[1] = r
            /\ sessions'[s].status # "running")
               => /\ sessions'[s].status = "returned"
                  /\ sessions'[s].result = TRUE
                  /\ Cardinality({g \in DOMAIN auth_group' :
                                     /\ auth_group'[g].creator = c
                                     /\ auth_group'[g].role = r}) = 1
                  /\ auth_group'[AnyGroup(c, r)'].is_active]_vars

\* C12 witness: two add_role calls for the same role that overlapped have
\* both returned true, one having found the role absent.
C12_Witness ==
    \E s, t \in Sessions :
        /\ s # t
        /\ \A x \in {s, t} :
               /\ sessions[x].op = "add_role"
               /\ sessions[x].args = <<"admin", Null>>
               /\ sessions[x].status = "returned" /\ sessions[x].result
               /\ sessions[x].overlapped
        /\ sessions[s].found.role = "absent"
        /\ Len(auth_group) = 1 /\ auth_group[1].is_active

\* C13: every POST /api/role/<role> request that has been answered was
\* answered {result: true}, and at most one row exists per (creator, role).
C13_ConcurrentCreateRole ==
    /\ \A s \in Sessions :
           (/\ sessions[s].op = "create_role"
            /\ sessions[s].status \in {"returned", "raised"})
               => (sessions[s].status = "returned" /\ sessions[s].result)
    /\ \A g1, g2 \in DOMAIN auth_group :
           (/\ auth_group[g1].creator = auth_group[g2].creator
            /\ auth_group[g1].role = auth_group[g2].role) => g1 = g2

\* C14: when add_membership(u, r) or add_permission(r, p) returns true,
\* has_membership(u, r) / has_permission(r, p) is true in the state in which
\* the call returns, whatever another session does meanwhile.
C14_AddEffective ==
    [][\A s \in Sessions, c \in Clients, r \in Roles :
           /\ \A u \in Users :
                  (/\ sessions[s].status = "running"
                   /\ sessions[s].op = "add_membership"
                   /\ sessions[s].client = c
                   /\ sessions[s].args = <<u, r>>
                   /\ sessions'[s].status = "returned"
                   /\ sessions'[s].result)
                      => has_membership(c, u, r)'
           /\ \A p \in Permissions :
                  (/\ sessions[s].status = "running"
                   /\ sessions[s].op = "add_permission"
                   /\ sessions[s].client = c
                   /\ sessions[s].args = <<r, p>>
                   /\ sessions'[s].status = "returned"
                   /\ sessions'[s].result)
                      => has_permission(c, r, p)']_vars

\* C15: of two del_role(c, r) calls that overlapped, at least one of which
\* found the role active, exactly one has returned true.
C15_DelRoleOnce ==
    \A s, t \in Sessions :
        (/\ s # t
         /\ \A x \in {s, t} :
                /\ sessions[x].op = "del_role"
                /\ sessions[x].status = "returned"
                /\ sessions[x].overlapped
         /\ sessions[s].client = sessions[t].client
         /\ sessions[s].args = sessions[t].args
         /\ sessions[s].found.role = "active")
            => sessions[s].result # sessions[t].result

\* C16: when the link insert or the commit of add_membership /
\* add_permission fails after the upsert was issued, the call returns false,
\* every table is as it was before the failing statement (no new or
\* reactivated row, no link row), and nothing of the transaction is left
\* pending on the session to be committed later.
C16_AllOrNothing ==
    [][\A s \in Sessions :
           (/\ sessions[s].status = "running"
            /\ sessions[s].op \in {"add_membership", "add_permission"}
            /\ \/ /\ sessions[s].pc = "link"
                  /\ sessions'[s].pc # "commit"
               \/ /\ sessions[s].pc = "commit"
                  /\ ~(/\ sessions'[s].status = "returned"
                       /\ sessions'[s].result))
               => /\ sessions'[s].status = "returned"
                  /\ sessions'[s].result = FALSE
                  /\ sessions'[s].pending = <<>>
                  /\ tables' = tables]_vars

\* C16 witness: add_membership on an active role has failed at its commit,
\* after the upsert of a new membership row and the link insert were
\* issued, and the store holds no membership row.
C16_Witness ==
    \E s \in Sessions :
        /\ sessions[s].op = "add_membership"
        /\ sessions[s].status = "returned" /\ ~sessions[s].result
        /\ sessions[s].pc = "commit"
        /\ sessions[s].found.role = "active"
        /\ auth_membership = <<>> /\ membership_groups = {}

\* C17: add_role, add_membership and add_permission return false only when
\* the target role is absent or inactive (add_role never), and a call that
\* ended at a failing statement ended with an error, not with a value.
C17_FalseOnlyOnPrecondition ==
    \A s \in Sessions :
        (/\ sessions[s].op \in {"add_role", "add_membership",
                                "add_permission"}
         /\ sessions[s].status \in {"returned", "raised"})
            => /\ (sessions[s].status = "returned" /\ ~sessions[s].result)
                      => /\ sessions[s].op # "add_role"
                         /\ sessions[s].found.role \in {"absent", "inactive"}
               /\ sessions[s].pc # "done" => sessions[s].status = "raised"

-----------------------------------------------------------------------------
(* One long-lived Session: auth.Authorization keeps self.db =              *)
(* SessionLocal() and one AuthorizationService on it for all its calls.    *)
(* The Session is made with expire_on_commit=False, so a loaded object     *)
(* keeps its attribute values and its loaded relationship collections      *)
(* across commits; a query that returns a row whose object is in the       *)
(* identity map hands out that object as it is; the text() statements of   *)
(* add_role / add_membership / add_permission write to the store without   *)
(* touching any object.  The identity map references objects weakly: an    *)
(* object leaves it when the runtime collects it (`Collect`), which the    *)
(* code does not control.  Column values that no statement changes (names, *)
(* is_active of memberships and permissions) are read from the rows.       *)

\* A relationship collection of an object: not loaded yet, or loaded with
\* the given ids.
Unloaded == [loaded |-> FALSE, ids |-> {}]
Collection(ids) == [loaded |-> TRUE, ids |-> ids]

\* The object built for a row that is loaded for the first time.
AuthGroup_object(g) ==
    [is_active |-> auth_group[g].is_active, permissions |-> Unloaded]

AuthMembership_object == [groups |-> Unloaded]

AuthPermission_object == [groups |-> Unloaded]

\* .first() as a set of rows
Row(id) == IF id = 0 THEN {} ELSE {id}

\* A query returns the rows G: objects already in the identity map are
\* kept as they are, the others are built from their rows.
LoadGroups(objects, G) ==
    [objects EXCEPT !.auth_group =
        [g \in DOMAIN objects.auth_group \cup G |->
            IF g \in DOMAIN objects.auth_group
            THEN objects.auth_group[g] ELSE AuthGroup_object(g)]]

LoadMemberships(objects, M) ==
    [objects EXCEPT !.auth_membership =
        [m \in DOMAIN objects.auth_membership \cup M |->
            IF m \in DOMAIN objects.auth_membership
            THEN objects.auth_membership[m] ELSE AuthMembership_object]]

LoadPermissions(objects, P) ==
    [objects EXCEPT !.auth_permission =
        [p \in DOMAIN objects.auth_permission \cup P |->
            IF p \in DOMAIN objects.auth_permission
            THEN objects.auth_permission[p] ELSE AuthPermission_object]]

\* group.permissions: loaded from permission_groups on first access, the
\* loaded list afterwards.
Access_group_permissions(objects, g) ==
    IF objects.auth_group[g].permissions.loaded THEN objects
    ELSE LoadPermissions(
             [objects EXCEPT !.auth_group[g].permissions =
                                 Collection(AuthGroup_permissions(g))],
             AuthGroup_permissions(g))

\* membership.groups
Access_membership_groups(objects, m) ==
    IF objects.auth_membership[m].groups.loaded THEN objects
    ELSE LoadGroups(
             [objects EXCEPT !.auth_membership[m].groups =
                                 Collection(AuthMembership_groups(m))],
             AuthMembership_groups(m))

\* permission.groups
Access_permission_groups(objects, p) ==
    IF objects.auth_permission[p].groups.loaded THEN objects
    ELSE LoadGroups(
             [objects EXCEPT !.auth_permission[p].groups =
                                 Collection(AuthPermission_groups(p))],
             AuthPermission_groups(p))

\* has_permission / get_permissions on the session: the objects held after
\* the call, and what it returns.
Session_group_permissions(client, role) ==
    LET group == ActiveGroup(client, role)
    IN  IF group = 0 THEN identity_map
        ELSE Access_group_permissions(
                 LoadGroups(identity_map, {group}), group)

Session_has_permission(client, role, name) ==
    LET group == ActiveGroup(client, role)
        objects == Session_group_permissions(client, role)
    IN  IF group = 0 THEN FALSE
        ELSE \E p \in objects.auth_group[group].permissions.ids :
                 AuthPermission_name(p) = name /\ auth_permission[p].is_active

Session_get_permissions(client, role) ==
    LET group == ActiveGroup(client, role)
        objects == Session_group_permissions(client, role)
        perms == Ordered({p \in objects.auth_group[group].permissions.ids :
                             auth_permission[p].is_active})
    IN  IF group = 0 THEN <<>>
        ELSE [i \in DOMAIN perms |-> [name |-> AuthPermission_name(perms[i])]]

\* has_membership on the session
Session_membership_groups(client, user) ==
    LET membership == ActiveMembership(client, user)
    IN  IF membership = 0 THEN identity_map
        ELSE Access_membership_groups(
                 LoadMemberships(identity_map, {membership}), membership)

Session_has_membership(client, user, role) ==
    LET membership == ActiveMembership(client, user)
        objects == Session_membership_groups(client, user)
    IN  IF membership = 0 THEN FALSE
        ELSE \E g \in objects.auth_membership[membership].groups.ids :
                 auth_group[g].role = role /\ objects.auth_group[g].is_active

\* which_roles_can on the session
Session_permission_groups(client, name) ==
    LET permission == ActivePermission(client, name)
    IN  IF permission = 0 THEN identity_map
        ELSE Access_permission_groups(
                 LoadPermissions(identity_map, {permission}), permission)

Session_which_roles_can(client, name) ==
    LET permission == ActivePermission(client, name)
        objects == Session_permission_groups(client, name)
        groups == Ordered({g \in objects.auth_permission[permission].groups.ids :
                              objects.auth_group[g].is_active})
    IN  IF permission = 0 THEN <<>>
        ELSE [i \in DOMAIN groups |-> [role |-> auth_group[groups[i]].role]]

\* A read on the session: returns the result, keeps the objects it loaded.
SessionRead(op, client, args, result, objects) ==
    /\ last' = Call(op, client, args, result, Before("n/a", FALSE))
    /\ identity_map' = objects
    /\ UNCHANGED <<auth_group, auth_membership, auth_permission,
                   membership_groups, permission_groups, encryption_enabled,
                   sessions, audit_log, response>>

\* del_role: `group.is_active` is the attribute of the object the query
\* hands out.
Session_del_role_group(client, role) ==
    LoadGroups(identity_map, Row(AnyGroup(client, role)))

Session_del_role_result(client, role) ==
    LET group == AnyGroup(client, role)
    IN  /\ group # 0
        /\ Session_del_role_group(client, role).auth_group[group].is_active

Session_del_role(client, role) ==
    LET group == AnyGroup(client, role)
        objects == Session_del_role_group(client, role)
    IN  /\ IF Session_del_role_result(client, role)
           THEN \* group.is_active = False; commit() flushes the UPDATE
                /\ identity_map' =
                       [objects EXCEPT !.auth_group[group].is_active = FALSE]
                /\ auth_group' = [auth_group EXCEPT ![group].is_active = FALSE]
           ELSE /\ identity_map' = objects
                /\ auth_group' = auth_group
        /\ last' = Call("del_role", client, <<role>>,
                        Session_del_role_result(client, role),
                        Before(RoleState(client, role), FALSE))
        /\ UNCHANGED <<auth_membership, auth_permission, membership_groups,
                       permission_groups, encryption_enabled, sessions, audit_log, response>>

\* add_permission: the has_permission check runs on the session, the rest
\* is text() statements.
Session_add_permission(client, role, name) ==
    LET group_id == SelectGroupId(client, role)
        encrypted_name == _get_encrypted_permission(name)
        perm_id == UpsertPermissionId(client, encrypted_name)
        before == Before(RoleState(client, role),
                         Session_has_permission(client, role, name))
    IN  /\ identity_map' = Session_group_permissions(client, role)
        /\ IF Session_has_permission(client, role, name)
           THEN /\ UNCHANGED <<auth_permission, permission_groups>>
                /\ last' = Call("add_permission", client, <<role, name>>,
                                TRUE, before)
           ELSE IF group_id = 0
           THEN /\ UNCHANGED <<auth_permission, permission_groups>>
                /\ last' = Call("add_permission", client, <<role, name>>,
                                FALSE, before)
           ELSE /\ auth_permission' = UpsertPermission(client, encrypted_name)
                /\ permission_groups' =
                       InsertLink(permission_groups, perm_id, group_id)
                /\ last' = Call("add_permission", client, <<role, name>>,
                                TRUE, before)
        /\ UNCHANGED <<auth_group, auth_membership, membership_groups,
                       encryption_enabled, sessions, audit_log, response>>

\* del_permission: `permission.groups.remove(group)` changes the loaded
\* list, and through back_populates the group's loaded permissions;
\* commit() flushes the DELETE of the link row.
Session_del_permission(client, role, name) ==
    LET group == AnyGroup(client, role)
        permission == AnyPermission(client, name)
        checked == Session_group_permissions(client, role)
        queried == LoadPermissions(LoadGroups(checked, Row(group)),
                                   Row(permission))
        objects == Access_permission_groups(queried, permission)
        removed == [objects EXCEPT
                       !.auth_permission[permission].groups.ids = @ \ {group},
                       !.auth_group[group].permissions.ids = @ \ {permission}]
        before == Before(RoleState(client, role),
                         Session_has_permission(client, role, name))
    IN  /\ IF ~Session_has_permission(client, role, name)
           THEN /\ identity_map' = checked
                /\ permission_groups' = permission_groups
           ELSE IF group = 0
           THEN /\ identity_map' = LoadGroups(checked, Row(group))
                /\ permission_groups' = permission_groups
           ELSE IF permission = 0
           THEN /\ identity_map' = queried
                /\ permission_groups' = permission_groups
           ELSE IF group \in objects.auth_permission[permission].groups.ids
           THEN /\ identity_map' = removed
                /\ permission_groups' =
                       DeleteLink(permission_groups, permission, group)
           ELSE /\ identity_map' = objects
                /\ permission_groups' = permission_groups
        /\ last' = Call("del_permission", client, <<role, name>>, TRUE, before)
        /\ UNCHANGED <<auth_group, auth_membership, auth_permission,
                       membership_groups, encryption_enabled, sessions, audit_log, response>>

\* del_membership: `membership.groups.remove(group)`; the group object has
\* no loaded list of memberships in the calls modelled here.
Session_del_membership(client, user, role) ==
    LET group == AnyGroup(client, role)
        membership == AnyMembership(client, user)
        checked == Session_membership_groups(client, user)
        queried == LoadMemberships(LoadGroups(checked, Row(group)),
                                   Row(membership))
        objects == Access_membership_groups(queried, membership)
        removed == [objects EXCEPT
                       !.auth_membership[membership].groups.ids = @ \ {group}]
        before == Before(RoleState(client, role),
                         Session_has_membership(client, user, role))
    IN  /\ IF ~Session_has_membership(client, user, role)
           THEN /\ identity_map' = checked
                /\ membership_groups' = membership_groups
           ELSE IF group = 0
           THEN /\ identity_map' = LoadGroups(checked, Row(group))
                /\ membership_groups' = membership_groups
           ELSE IF membership = 0
           THEN /\ identity_map' = queried
                /\ membership_groups' = membership_groups
           ELSE IF group \in objects.auth_membership[membership].groups.ids
           THEN /\ identity_map' = removed
                /\ membership_groups' =
                       DeleteLink(membership_groups, membership, group)
           ELSE /\ identity_map' = objects
                /\ membership_groups' = membership_groups
        /\ last' = Call("del_membership", client, <<user, role>>, TRUE, before)
        /\ UNCHANGED <<auth_group, auth_membership, auth_permission,
                       permission_groups, encryption_enabled, sessions, audit_log, response>>

\* The objects that a loaded collection of a kept object refers to.
Referenced(objects) ==
    [auth_group |->
        UNION ({objects.auth_membership[m].groups.ids :
                   m \in DOMAIN objects.auth_membership}
               \cup {objects.auth_permission[p].groups.ids :
                        p \in DOMAIN objects.auth_permission}),
     auth_permission |->
        UNION {objects.auth_group[g].permissions.ids :
                  g \in DOMAIN objects.auth_group}]

Keep(objects, G, M, P) ==
    [auth_group |-> [g \in G |-> objects.auth_group[g]],
     auth_membership |-> [m \in M |-> objects.auth_membership[m]],
     auth_permission |-> [p \in P |-> objects.auth_permission[p]]]

\* The runtime collects objects that nothing refers to any longer (no call
\* is in progress; the identity map's own references are weak): any set of
\* objects that no kept object's collection refers to.
Collect ==
    /\ \E G \in SUBSET DOMAIN identity_map.auth_group,
          M \in SUBSET DOMAIN identity_map.auth_membership,
          P \in SUBSET DOMAIN identity_map.auth_permission :
           /\ Keep(identity_map, G, M, P) # identity_map
           /\ Referenced(Keep(identity_map, G, M, P)).auth_group \subseteq G
           /\ Referenced(Keep(identity_map, G, M, P)).auth_permission
                  \subseteq P
           /\ identity_map' = Keep(identity_map, G, M, P)
    /\ UNCHANGED <<auth_group, auth_membership, auth_permission,
                   membership_groups, permission_groups, encryption_enabled,
                   last, sessions, audit_log, response>>

\* The calls of one Authorization wrapper, one after the other.
SessionCalls(C, R, U, P) ==
    \/ \E c \in C, r \in R : add_role(c, r, Null, "none")
    \/ \E c \in C, r \in R : Session_del_role(c, r)
    \/ \E c \in C, u \in U, r \in R : add_membership(c, u, r, "none")
    \/ \E c \in C, u \in U, r \in R : Session_del_membership(c, u, r)
    \/ \E c \in C, r \in R, p \in P : Session_add_permission(c, r, p)
    \/ \E c \in C, r \in R, p \in P : Session_del_permission(c, r, p)
    \/ \E c \in C, r \in R, p \in P :
           SessionRead("has_permission", c, <<r, p>>,
                       Session_has_permission(c, r, p),
                       Session_group_permissions(c, r))
    \/ \E c \in C, r \in R :
           SessionRead("get_permissions", c, <<r>>,
                       Session_get_permissions(c, r),
                       Session_group_permissions(c, r))
    \/ \E c \in C, u \in U, r \in R :
           SessionRead("has_membership", c, <<u, r>>,
                       Session_has_membership(c, u, r),
                       Session_membership_groups(c, u))
    \/ \E c \in C, p \in P :
           SessionRead("which_roles_can", c, <<p>>,
                       Session_which_roles_can(c, p),
                       Session_permission_groups(c, p))

NextSession ==
    \/ SessionCalls(OneClient, {"admin"}, {"john"}, {"read"})
    \/ Collect

SpecSession == InitEncrypted /\ [][NextSession]_vars

C19_LinksConnectActive ==
    /\ \A l \in membership_groups :
           auth_membership[l[1]].is_active /\ auth_group[l[2]].is_active
    /\ \A l \in permission_groups :
           auth_permission[l[1]].is_active /\ auth_group[l[2]].is_active

\* r is an active role of the tenant linked to the active permission p,
\* read off the tables.
HoldsPermission(c, r, p) ==
    \E g \in DOMAIN auth_group, q \in DOMAIN auth_permission :
        /\ auth_group[g].creator = c /\ auth_group[g].role = r
        /\ auth_group[g].is_active
        /\ auth_permission[q].creator = c /\ auth_permission[q].is_active
        /\ decrypt_sensitive_data(auth_permission[q].name) = p
        /\ <<q, g>> \in permission_groups

\* the active membership of u is linked to the active role r of the tenant,
\* read off the tables.
IsMember(c, u, r) ==
    \E g \in DOMAIN auth_group, m \in DOMAIN auth_membership :
        /\ auth_group[g].creator = c /\ auth_group[g].role = r
        /\ auth_group[g].is_active
        /\ auth_membership[m].creator = c /\ auth_membership[m].is_active
        /\ decrypt_sensitive_data(auth_membership[m].user) = u
        /\ <<m, g>> \in membership_groups

\* C20: no read reports an inactive role, or a membership or permission
\* that is inactive or reached only through an inactive role: every role
\* listed is active, every permission listed for a role is an active
\* permission linked to that active role, every user listed for a role is
\* an active member of that active role, and what is reported for a user
\* passes through an active membership and an active role.
C20_ReadsReportActiveOnly ==
    \A c \in OneClient :
        /\ \A e \in Range(get_roles(c)) :
               \E g \in DOMAIN auth_group :
                   /\ auth_group[g].creator = c /\ auth_group[g].role = e.role
                   /\ auth_group[g].is_active
        /\ \A r \in Roles :
               /\ \A e \in Range(get_permissions(c, r)) :
                      HoldsPermission(c, r, e.name)
               /\ \A e \in Range(get_role_members(c, r)) :
                      e.role = r /\ IsMember(c, e.user, r)
               /\ \A u \in Users : has_membership(c, u, r) => IsMember(c, u, r)
               /\ \A p \in Permissions :
                      has_permission(c, r, p) => HoldsPermission(c, r, p)
        /\ \A u \in Users :
               /\ \A e \in Range(get_user_permissions(c, u)) :
                      \E r \in Roles : Qualifies(c, u, r, e.name)
               /\ \A e \in Range(get_user_roles(c, u)) :
                      e.user = u /\ IsMember(c, u, e.role)
               /\ \A p \in Permissions :
                      user_has_permission(c, u, p)
                          => \E r \in Roles : Qualifies(c, u, r, p)
        /\ \A p \in Permissions :
               /\ \A e \in Range(which_roles_can(c, p)) :
                      HoldsPermission(c, e.role, p)
               /\ \A e \in Range(which_users_can(c, p)) :
                      Qualifies(c, e.user, e.role, p)

\* C20 witness: del_role has just deactivated "admin", whose link rows to
\* john's membership and to the permission read are still there; john is
\* also a member of the active role "user", which holds the permission, and
\* the reads list "user" only.
C20_Witness ==
    \E c \in OneClient :
        /\ last.op = "del_role" /\ last.args = <<"admin">> /\ last.result
        /\ <<AnyMembership(c, "john"), AnyGroup(c, "admin")>>
               \in membership_groups
        /\ <<AnyPermission(c, "read"), AnyGroup(c, "admin")>>
               \in permission_groups
        /\ get_user_roles(c, "john") = <<[user |-> "john", role |-> "user"]>>
        /\ which_roles_can(c, "read") = <<[role |-> "user"]>>
        /\ get_permissions(c, "admin") = <<>>
        /\ ~has_membership(c, "john", "admin")
        /\ user_has_permission(c, "john", "read")

-----------------------------------------------------------------------------
(* The SQLite engine: auth/dal/authorization_sqlite.py (Authorization)     *)
(* over the models of auth/models/sqlite.py.  The tables have the same     *)
(* columns and UNIQUE constraints as above; users and permission names are *)
(* stored as given.  Every model method commits its own statement.         *)

\* AuthGroup.get_by_role: SELECT * ... WHERE creator = ? AND role = ?
\*   AND is_active = 1  -> the row's id, 0 for None
sqlite_AuthGroup_get_by_role(creator, role) ==
    First({g \in DOMAIN auth_group :
              /\ auth_group[g].creator = creator
              /\ auth_group[g].role = role
              /\ auth_group[g].is_active})

\* the rows that UNIQUE(creator, role) sets against a new (creator, role)
sqlite_AuthGroup_rows(creator, role) ==
    {g \in DOMAIN auth_group :
        auth_group[g].creator = creator /\ auth_group[g].role = role}

\* AuthGroup.create: the INSERT succeeds (True) unless UNIQUE(creator, role)
\* raises sqlite3.IntegrityError (False)
sqlite_AuthGroup_create(creator, role) ==
    sqlite_AuthGroup_rows(creator, role) = {}

\* AuthGroup.get_all_by_creator
sqlite_AuthGroup_get_all_by_creator(creator) ==
    Ordered({g \in DOMAIN auth_group :
                auth_group[g].creator = creator /\ auth_group[g].is_active})

\* AuthMembership.create_or_get: the id of the (creator, user) row, which is
\* inserted when there is none
sqlite_AuthMembership_row(creator, user) ==
    First({m \in DOMAIN auth_membership :
              /\ auth_membership[m].creator = creator
              /\ auth_membership[m].user = user})

sqlite_AuthMembership_create_or_get(creator, user) ==
    IF sqlite_AuthMembership_row(creator, user) # 0
    THEN sqlite_AuthMembership_row(creator, user)
    ELSE Len(auth_membership) + 1

\* AuthMembership.get_by_user (is_active = 1)
sqlite_AuthMembership_get_by_user(creator, user) ==
    First({m \in DOMAIN auth_membership :
              /\ auth_membership[m].creator = creator
              /\ auth_membership[m].user = user
              /\ auth_membership[m].is_active})

\* AuthMembership.get_groups: the join over membership_groups with both
\* ends active
sqlite_AuthMembership_get_groups(creator, user) ==
    {g \in DOMAIN auth_group :
        /\ auth_group[g].is_active
        /\ \E m \in DOMAIN auth_membership :
               /\ <<m, g>> \in membership_groups
               /\ auth_membership[m].creator = creator
               /\ auth_membership[m].user = user
               /\ auth_membership[m].is_active}

\* AuthPermission.create_or_get
sqlite_AuthPermission_row(creator, name) ==
    First({q \in DOMAIN auth_permission :
              /\ auth_permission[q].creator = creator
              /\ auth_permission[q].name = name})

sqlite_AuthPermission_create_or_get(creator, name) ==
    IF sqlite_AuthPermission_row(creator, name) # 0
    THEN sqlite_AuthPermission_row(creator, name)
    ELSE Len(auth_permission) + 1

\* AuthPermission.get_by_name (is_active = 1)
sqlite_AuthPermission_get_by_name(creator, name) ==
    First({q \in DOMAIN auth_permission :
              /\ auth_permission[q].creator = creator
              /\ auth_permission[q].name = name
              /\ auth_permission[q].is_active})

\* AuthPermission.get_groups
sqlite_AuthPermission_get_groups(creator, name) ==
    {g \in DOMAIN auth_group :
        /\ auth_group[g].is_active
        /\ \E q \in DOMAIN auth_permission :
               /\ <<q, g>> \in permission_groups
               /\ auth_permission[q].creator = creator
               /\ auth_permission[q].name = name
               /\ auth_permission[q].is_active}

\* Authorization.roles
dal_roles(client) ==
    LET groups == sqlite_AuthGroup_get_all_by_creator(client)
    IN  [i \in DOMAIN groups |-> [role |-> auth_group[groups[i]].role]]

\* Authorization.has_membership
dal_has_membership(client, user, role) ==
    \E g \in sqlite_AuthMembership_get_groups(client, user) :
        auth_group[g].role = role

\* Authorization.has_permission
dal_has_permission(client, role, name) ==
    LET target_group == sqlite_AuthGroup_get_by_role(client, role)
    IN  /\ target_group # 0
        /\ target_group \in sqlite_AuthPermission_get_groups(client, name)

\* Authorization.add_role: create, and for an existing row the answer of
\* get_by_role
dal_add_role(client, role, description) ==
    LET result == sqlite_AuthGroup_create(client, role)
    IN  /\ auth_group' =
               IF result
               THEN Append(auth_group,
                           [creator |-> client, role |-> role,
                            description |-> description, is_active |-> TRUE])
               ELSE auth_group
        /\ last' = Call("add_role", client, <<role, description>>,
                        result \/ sqlite_AuthGroup_get_by_role(client, role) # 0,
                        Before(RoleState(client, role), FALSE))
        /\ UNCHANGED <<auth_membership, auth_permission, membership_groups,
                       permission_groups, encryption_enabled, sessions,
                       identity_map, audit_log, response>>

\* Authorization.del_role -> AuthGroup.delete: UPDATE ... SET is_active = 0
\* WHERE creator = ? AND role = ?; rowcount > 0
dal_del_role(client, role) ==
    /\ auth_group' =
           [g \in DOMAIN auth_group |->
               IF g \in sqlite_AuthGroup_rows(client, role)
               THEN [auth_group[g] EXCEPT !.is_active = FALSE]
               ELSE auth_group[g]]
    /\ last' = Call("del_role", client, <<role>>,
                    sqlite_AuthGroup_rows(client, role) # {},
                    Before(RoleState(client, role), FALSE))
    /\ UNCHANGED <<auth_membership, auth_permission, membership_groups,
                   permission_groups, encryption_enabled, sessions,
                   identity_map, audit_log, response>>

\* Authorization.add_membership: get_by_role, create_or_get, then
\* AuthMembership.add_group, whose INSERT raises IntegrityError (False)
\* when UNIQUE(membership_id, group_id) is hit
dal_add_membership(client, user, role) ==
    LET target_group == sqlite_AuthGroup_get_by_role(client, role)
        membership_id == sqlite_AuthMembership_create_or_get(client, user)
        before == Before(RoleState(client, role),
                         dal_has_membership(client, user, role))
    IN  /\ IF target_group = 0
           THEN /\ UNCHANGED <<auth_membership, membership_groups>>
                /\ last' = Call("add_membership", client, <<user, role>>,
                                FALSE, before)
           ELSE /\ auth_membership' =
                       IF sqlite_AuthMembership_row(client, user) # 0
                       THEN auth_membership
                       ELSE Append(auth_membership,
                                   [creator |-> client, user |-> user,
                                    is_active |-> TRUE])
                /\ membership_groups' =
                       membership_groups \cup {<<membership_id, target_group>>}
                /\ last' = Call("add_membership", client, <<user, role>>,
                                <<membership_id, target_group>>
                                    \notin membership_groups,
                                before)
        /\ UNCHANGED <<auth_group, auth_permission, permission_groups,
                       encryption_enabled, sessions, identity_map, audit_log, response>>

\* Authorization.del_membership
dal_del_membership(client, user, role) ==
    LET target_group == sqlite_AuthGroup_get_by_role(client, role)
        membership == sqlite_AuthMembership_get_by_user(client, user)
        before == Before(RoleState(client, role),
                         dal_has_membership(client, user, role))
    IN  /\ IF \/ ~dal_has_membership(client, user, role)
              \/ target_group = 0
              \/ membership = 0
           THEN /\ membership_groups' = membership_groups
                /\ last' = Call("del_membership", client, <<user, role>>,
                                TRUE, before)
           ELSE /\ membership_groups' =
                       membership_groups \ {<<membership, target_group>>}
                /\ last' = Call("del_membership", client, <<user, role>>,
                                <<membership, target_group>>
                                    \in membership_groups,
                                before)
        /\ UNCHANGED <<auth_group, auth_membership, auth_permission,
                       permission_groups, encryption_enabled, sessions,
                       identity_map, audit_log, response>>

\* Authorization.add_permission
dal_add_permission(client, role, name) ==
    LET target_group == sqlite_AuthGroup_get_by_role(client, role)
        permission_id == sqlite_AuthPermission_create_or_get(client, name)
        before == Before(RoleState(client, role),
                         dal_has_permission(client, role, name))
    IN  /\ IF dal_has_permission(client, role, name)
           THEN /\ UNCHANGED <<auth_permission, permission_groups>>
                /\ last' = Call("add_permission", client, <<role, name>>,
                                TRUE, before)
           ELSE IF target_group = 0
           THEN /\ UNCHANGED <<auth_permission, permission_groups>>
                /\ last' = Call("add_permission", client, <<role, name>>,
                                FALSE, before)
           ELSE /\ auth_permission' =
                       IF sqlite_AuthPermission_row(client, name) # 0
                       THEN auth_permission
                       ELSE Append(auth_permission,
                                   [creator |-> client, name |-> name,
                                    is_active |-> TRUE])
                /\ permission_groups' =
                       permission_groups \cup {<<permission_id, target_group>>}
                /\ last' = Call("add_permission", client, <<role, name>>,
                                <<permission_id, target_group>>
                                    \notin permission_groups,
                                before)
        /\ UNCHANGED <<auth_group, auth_membership, membership_groups,
                       encryption_enabled, sessions, identity_map, audit_log, response>>

\* Authorization.del_permission
dal_del_permission(client, role, name) ==
    LET target_group == sqlite_AuthGroup_get_by_role(client, role)
        permission == sqlite_AuthPermission_get_by_name(client, name)
        before == Before(RoleState(client, role),
                         dal_has_permission(client, role, name))
    IN  /\ IF \/ ~dal_has_permission(client, role, name)
              \/ target_group = 0
              \/ permission = 0
           THEN /\ permission_groups' = permission_groups
                /\ last' = Call("del_permission", client, <<role, name>>,
                                TRUE, before)
           ELSE /\ permission_groups' =
                       permission_groups \ {<<permission, target_group>>}
                /\ last' = Call("del_permission", client, <<role, name>>,
                                <<permission, target_group>>
                                    \in permission_groups,
                                before)
        /\ UNCHANGED <<auth_group, auth_membership, auth_permission,
                       membership_groups, encryption_enabled, sessions,
                       identity_map, audit_log, response>>

\* One tenant administering the SQLite engine.
NextSqlite ==
    \/ \E c \in OneClient, r \in Roles : dal_add_role(c, r, Null)
    \/ \E c \in OneClient, r \in Roles : dal_del_role(c, r)
    \/ \E c \in OneClient, u \in {"john"}, r \in Roles :
           dal_add_membership(c, u, r)
    \/ \E c \in OneClient, u \in {"john"}, r \in Roles :
           dal_del_membership(c, u, r)
    \/ \E c \in OneClient, r \in Roles, p \in {"read"} :
           dal_add_permission(c, r, p)
    \/ \E c \in OneClient, r \in Roles, p \in {"read"} :
           dal_del_permission(c, r, p)

SpecSqlite == Init /\ [][NextSqlite]_vars

\* C21: in the SQLite engine, add_membership(u, r) for a user who already
\* is a member of the active role r returns true and leaves the store as
\* it was.
C21_SqliteAddExistingMembership ==
    [][(/\ last'.op = "add_membership"
        /\ last'.before.role = "active"
        /\ last'.before.linked)
           => (last'.result /\ tables' = tables)]_vars

\* C22: in the SQLite engine, del_role(r) returns true exactly when r
\* existed and was active immediately before the call.
C22_SqliteDelRole ==
    last.op = "del_role" => (last.result <=> last.before.role = "active")

\* C23: in the SQLite engine, add_role(r) on a soft-deleted role returns
\* true and makes r visible again in roles, on the one row the tenant has
\* for r.
C23_SqliteRevival ==
    (last.op = "add_role" /\ last.before.role = "inactive")
        => /\ last.result
           /\ [role |-> last.args[1]] \in Range(dal_roles(last.client))
           /\ Cardinality(sqlite_AuthGroup_rows(last.client, last.args[1])) = 1

-----------------------------------------------------------------------------
(* The REST boundary: auth/routes.py over auth/validation.py,              *)
(* auth/service.py, auth/response_format.py and auth/audit.py.             *)
(*                                                                         *)
(* Text that the boundary inspects character by character (path            *)
(* parameters, the Authorization header) is a sequence of one-character    *)
(* strings.  A request is one action that runs the whole view function.    *)

LowerAlphabet ==
    <<"a", "b", "c", "d", "e", "f", "g", "h", "i", "j", "k", "l", "m",
      "n", "o", "p", "q", "r", "s", "t", "u", "v", "w", "x", "y", "z">>
UpperAlphabet ==
    <<"A", "B", "C", "D", "E", "F", "G", "H", "I", "J", "K", "L", "M",
      "N", "O", "P", "Q", "R", "S", "T", "U", "V", "W", "X", "Y", "Z">>
Digits == {"0", "1", "2", "3", "4", "5", "6", "7", "8", "9"}

\* the character class [a-zA-Z0-9_-]
NameCharacters ==
    Range(LowerAlphabet) \cup Range(UpperAlphabet) \cup Digits \cup {"_", "-"}

\* the character class [0-9a-f] under re.IGNORECASE
HexCharacters == Digits \cup {"a", "b", "c", "d", "e", "f"}
                        \cup {"A", "B", "C", "D", "E", "F"}

\* str.lower() of one character
LowerCharacter(c) ==
    IF c \in Range(UpperAlphabet)
    THEN LowerAlphabet[CHOOSE i \in DOMAIN UpperAlphabet : UpperAlphabet[i] = c]
    ELSE c

\* str.lower()
Lower(text) == [i \in DOMAIN text |-> LowerCharacter(text[i])]

\* text consists of lo..hi characters of the class
InClass(text, class, lo, hi) ==
    /\ Len(text) >= lo
    /\ Len(text) <= hi
    /\ \A i \in DOMAIN text : text[i] \in class

\* re.compile(r"^[class]{1,n}$").match(text): `$` matches at the end of the
\* text and also just before a newline that is its last character.
MatchesNamePattern(text, n) ==
    \/ InClass(text, NameCharacters, 1, n)
    \/ /\ Len(text) > 0
       /\ text[Len(text)] = "\n"
       /\ InClass(SubSeq(text, 1, Len(text) - 1), NameCharacters, 1, n)

\* USER_ROLE_NAME_PATTERN = re.compile(r"^[a-zA-Z0-9_-]{1,64}$")
USER_ROLE_NAME_PATTERN(text) == MatchesNamePattern(text, 64)

validate_user_name(user_name) == USER_ROLE_NAME_PATTERN(user_name)

validate_role_name(role_name) == USER_ROLE_NAME_PATTERN(role_name)

\* pattern = re.compile(r"^[a-zA-Z0-9_-]{1,128}$")
validate_permission_name(permission_name) ==
    MatchesNamePattern(permission_name, 128)

\* (is_valid, error_msg)[0]: the user name is checked first
validate_user_role_combination(user, role) ==
    validate_user_name(user) /\ validate_role_name(role)

\* CLIENT_KEY_PATTERN: 8-4-4-4-12 hexadecimal digits separated by dashes,
\* re.IGNORECASE; the optional newline of `$` cannot occur in a token that
\* str.split() produced.
CLIENT_KEY_PATTERN(text) ==
    /\ Len(text) = 36
    /\ \A i \in 1..36 :
          IF i \in {9, 14, 19, 24} THEN text[i] = "-"
          ELSE text[i] \in HexCharacters

validate_client_key(client_key) == CLIENT_KEY_PATTERN(client_key)

\* auth/service.py validate_client_key: uuid.UUID(client, version=4) takes
\* the 32 hexadecimal digits and overwrites the version digit with 4 and the
\* variant bits with 10; str(uuid_obj) is the canonical lower-case text, so
\* the comparison holds only when the text was canonical with those digits.
\* (uuid.UUID also accepts braces and a urn:uuid: prefix, which the
\* comparison with the canonical text then rejects.)
service_validate_client_key(client) ==
    /\ CLIENT_KEY_PATTERN(client)
    /\ LowerCharacter(client[15]) = "4"
    /\ LowerCharacter(client[20]) \in {"8", "9", "a", "b"}

-----------------------------------------------------------------------------
(* auth/service.py: the AuthorizationService the routes call.  It reads    *)
(* and assigns the entity attributes directly; `client` is self.client.   *)
(* Every method is given as the tables it leaves committed and the value  *)
(* it returns.                                                             *)

CommittedTables ==
    [auth_group |-> auth_group, auth_membership |-> auth_membership,
     auth_permission |-> auth_permission,
     membership_groups |-> membership_groups,
     permission_groups |-> permission_groups]

\* query(AuthMembership).filter(creator == client, user == user[, is_active]).first()
service_membership(client, user, active_only) ==
    First({m \in DOMAIN auth_membership :
              /\ auth_membership[m].creator = client
              /\ auth_membership[m].user = user
              /\ active_only => auth_membership[m].is_active})

\* query(AuthPermission).filter(creator == client, name == name[, is_active]).first()
service_permission(client, name, active_only) ==
    First({p \in DOMAIN auth_permission :
              /\ auth_permission[p].creator = client
              /\ auth_permission[p].name = name
              /\ active_only => auth_permission[p].is_active})

service_get_roles(client) ==
    LET groups == Ordered({g \in DOMAIN auth_group :
                              /\ auth_group[g].creator = client
                              /\ auth_group[g].is_active})
    IN  [i \in DOMAIN groups |->
            [role |-> auth_group[groups[i]].role,
             description |-> auth_group[groups[i]].description]]

\* the permissions of one group, as get_permissions lists them
service_group_permissions(group) ==
    LET perms == Ordered({p \in AuthGroup_permissions(group) :
                             auth_permission[p].is_active})
    IN  [i \in DOMAIN perms |-> [name |-> auth_permission[perms[i]].name]]

service_get_permissions(client, role) ==
    LET group == ActiveGroup(client, role)
    IN  IF group = 0 THEN <<>> ELSE service_group_permissions(group)

service_get_user_permissions(client, user) ==
    LET membership == service_membership(client, user, TRUE)
        groups == Ordered({g \in AuthMembership_groups(membership) :
                              auth_group[g].is_active})
    IN  IF membership = 0 THEN <<>>
        ELSE Extend(groups,
                    [g \in Range(groups) |-> service_group_permissions(g)])

service_get_user_roles(client, user) ==
    LET membership == service_membership(client, user, TRUE)
        groups == Ordered({g \in AuthMembership_groups(membership) :
                              auth_group[g].is_active})
    IN  IF membership = 0 THEN <<>>
        ELSE [i \in DOMAIN groups |->
                 [user |-> auth_membership[membership].user,
                  role |-> auth_group[groups[i]].role]]

service_get_role_members(client, role) ==
    LET group == ActiveGroup(client, role)
        members == Ordered({m \in AuthGroup_memberships(group) :
                               auth_membership[m].is_active})
    IN  IF group = 0 THEN <<>>
        ELSE [i \in DOMAIN members |->
                 [user |-> auth_membership[members[i]].user,
                  role |-> auth_group[group].role]]

service_which_roles_can(client, name) ==
    LET permission == service_permission(client, name, TRUE)
        groups == Ordered({g \in AuthPermission_groups(permission) :
                              auth_group[g].is_active})
    IN  IF permission = 0 THEN <<>>
        ELSE [i \in DOMAIN groups |-> [role |-> auth_group[groups[i]].role]]

service_which_users_can(client, name) ==
    LET roles == service_which_roles_can(client, name)
    IN  Extend(roles, [rd \in Range(roles) |->
                          service_get_role_members(client, rd.role)])

service_has_membership(client, user, role) ==
    LET membership == service_membership(client, user, TRUE)
    IN  IF membership = 0 THEN FALSE
        ELSE \E g \in AuthMembership_groups(membership) :
                 auth_group[g].role = role /\ auth_group[g].is_active

service_has_permission(client, role, name) ==
    LET group == ActiveGroup(client, role)
    IN  IF group = 0 THEN FALSE
        ELSE \E p \in AuthGroup_permissions(group) :
                 auth_permission[p].name = name /\ auth_permission[p].is_active

service_user_has_permission(client, user, name) ==
    LET membership == service_membership(client, user, TRUE)
    IN  IF membership = 0 THEN FALSE
        ELSE \E g \in AuthMembership_groups(membership) :
                 /\ auth_group[g].is_active
                 /\ service_has_permission(client, auth_group[g].role, name)

\* add_role(role): an existing row is set active again, otherwise a row is
\* added; True in every case.
service_add_role(client, role) ==
    LET existing == AnyGroup(client, role)
    IN  [CommittedTables EXCEPT
            !.auth_group =
                IF existing # 0
                THEN [auth_group EXCEPT ![existing].is_active = TRUE]
                ELSE Append(auth_group,
                            [creator |-> client, role |-> role,
                             description |-> Null, is_active |-> TRUE])]

service_del_role_result(client, role) ==
    LET group == AnyGroup(client, role)
    IN  group # 0 /\ auth_group[group].is_active

service_del_role(client, role) ==
    LET group == AnyGroup(client, role)
    IN  IF service_del_role_result(client, role)
        THEN [CommittedTables EXCEPT
                 !.auth_group = [auth_group EXCEPT ![group].is_active = FALSE]]
        ELSE CommittedTables

\* add_membership: False without an active group; otherwise the membership
\* row is fetched or added and the group appended to membership.groups
\* unless it is there.
service_add_membership_result(client, user, role) ==
    ActiveGroup(client, role) # 0

service_add_membership(client, user, role) ==
    LET group == ActiveGroup(client, role)
        found == service_membership(client, user, FALSE)
        memberships ==
            IF found # 0 THEN auth_membership
            ELSE Append(auth_membership,
                        [creator |-> client, user |-> user, is_active |-> TRUE])
        membership == IF found # 0 THEN found ELSE Len(memberships)
    IN  IF group = 0 THEN CommittedTables
        ELSE [CommittedTables EXCEPT
                 !.auth_membership = memberships,
                 !.membership_groups =
                     membership_groups \cup {<<membership, group>>}]

\* del_membership: True in every case; the link is removed when
\* has_membership holds.
service_del_membership(client, user, role) ==
    LET group == AnyGroup(client, role)
        membership == service_membership(client, user, FALSE)
    IN  IF /\ service_has_membership(client, user, role)
           /\ group # 0
           /\ membership # 0
        THEN [CommittedTables EXCEPT
                 !.membership_groups =
                     membership_groups \ {<<membership, group>>}]
        ELSE CommittedTables

\* add_permission: True when has_permission holds already; False without
\* an active group; otherwise the permission row is fetched or added and
\* the group appended to permission.groups unless it is there.
service_add_permission_result(client, role, name) ==
    service_has_permission(client, role, name) \/ ActiveGroup(client, role) # 0

service_add_permission(client, role, name) ==
    LET group == ActiveGroup(client, role)
        found == service_permission(client, name, FALSE)
        permissions ==
            IF found # 0 THEN auth_permission
            ELSE Append(auth_permission,
                        [creator |-> client, name |-> name, is_active |-> TRUE])
        permission == IF found # 0 THEN found ELSE Len(permissions)
    IN  IF service_has_permission(client, role, name) \/ group = 0
        THEN CommittedTables
        ELSE [CommittedTables EXCEPT
                 !.auth_permission = permissions,
                 !.permission_groups =
                     permission_groups \cup {<<permission, group>>}]

service_del_permission(client, role, name) ==
    LET group == AnyGroup(client, role)
        permission == service_permission(client, name, FALSE)
    IN  IF /\ service_has_permission(client, role, name)
           /\ group # 0
           /\ permission # 0
        THEN [CommittedTables EXCEPT
                 !.permission_groups =
                     permission_groups \ {<<permission, group>>}]
        ELSE CommittedTables

-----------------------------------------------------------------------------
(* auth/routes.py: the requests.                                           *)

\* how many requests are served
MaxRequests == 1

Bearer == <<"B", "e", "a", "r", "e", "r">>
Basic == <<"B", "a", "s", "i", "c">>

\* a version-4 UUID, a version-1 UUID and a text that is no UUID
TenantKey ==
    <<"5", "5", "0", "e", "8", "4", "0", "0", "-", "e", "2", "9", "b", "-",
      "4", "1", "d", "4", "-", "a", "7", "1", "6", "-",
      "4", "4", "6", "6", "5", "5", "4", "4", "0", "0", "0", "0">>
Version1Key == [TenantKey EXCEPT ![15] = "1"]
NotAUuid == <<"n", "o", "t", "-", "a", "-", "u", "u", "i", "d">>

\* None where the boundary expects a text (a missing header, user=None)
None == <<>>

\* request.headers.get("Authorization"): None, or the header's text as
\* the tokens str.split() finds in it (at least one: a header value has no
\* surrounding blanks)
Headers ==
    {None, <<Bearer, TenantKey>>, <<Lower(Bearer), TenantKey>>,
     <<Basic, TenantKey>>, <<Bearer>>, <<Bearer, TenantKey, TenantKey>>,
     <<Bearer, Version1Key>>, <<Bearer, NotAUuid>>}

\* n times the character c
Repeat(c, n) == [i \in 1..n |-> c]

\* Path parameters: a segment of the URL after percent-decoding, never
\* empty and without "/".
RoleParameters ==
    {<<"a", "d", "m", "i", "n">>, <<"a", "d", "m", "i", "n", "\n">>,
     Repeat("r", 65)}
UserParameters == {<<"j", "o", "h", "n">>, <<"j", ";">>}
PermissionParameters ==
    {<<"r", "e", "a", "d">>, <<"r", "e", "a", "d", "\n">>, Repeat("p", 129)}

Parameters(kind) ==
    CASE kind = "user" -> UserParameters
      [] kind = "role" -> RoleParameters
      [] kind = "permission" -> PermissionParameters

\* the validator a view applies to a path parameter
Validate(kind, text) ==
    CASE kind = "user" -> validate_user_name(text)
      [] kind = "role" -> validate_role_name(text)
      [] kind = "permission" -> validate_permission_name(text)

\* The substrings handle_exception looks for; an exception is its class,
\* its HTTP code when it is a werkzeug HTTPException (str(e) is
\* "<code> <name>: <description>") and which of the substrings
\* str(e).lower() contains.
Keywords ==
    {"validation", "invalid", "unauthorized", "auth", "forbidden",
     "not found", "404"}

\* abort(401, description="Authorization header is missing.")
MissingHeader ==
    [class |-> "Unauthorized", code |-> 401,
     contains |-> {"unauthorized", "auth"}]

\* abort(401, description="Invalid Authorization header format. ...")
MalformedHeader ==
    [class |-> "Unauthorized", code |-> 401,
     contains |-> {"unauthorized", "auth", "invalid"}]

\* abort(400, description="Invalid client key: ...")
InvalidClientKey ==
    [class |-> "BadRequest", code |-> 400, contains |-> {"invalid"}]

\* What the store raises when it cannot serve a statement in time:
\* sqlalchemy.exc.TimeoutError after pool_timeout ("QueuePool limit of size
\* .. reached, connection timed out, timeout 30.00"), and OperationalError
\* when the connection fails ("connection to server .. failed: FATAL:
\* password authentication failed for user ..").
PoolTimeout == [class |-> "TimeoutError", code |-> 0, contains |-> {}]
ConnectionFailure ==
    [class |-> "OperationalError", code |-> 0, contains |-> {"auth"}]
StoreFaults == {PoolTimeout, ConnectionFailure}

NoException == [class |-> "none", code |-> 0, contains |-> {}]

\* _get_auth_service: the service's client, or the exception abort raises
\* (`not auth_header` holds for None and for the empty text)
_get_auth_service(header) ==
    IF header = None
    THEN [client |-> None, exception |-> MissingHeader]
    ELSE IF Lower(header[1]) # Lower(Bearer) \/ Len(header) # 2
    THEN [client |-> None, exception |-> MalformedHeader]
    ELSE IF ~validate_client_key(header[2])
    THEN [client |-> None, exception |-> InvalidClientKey]
    ELSE IF ~service_validate_client_key(header[2])
    THEN [client |-> None, exception |-> InvalidClientKey]
    ELSE [client |-> header[2], exception |-> NoException]

\* handle_exception: the code of the error envelope
handle_exception(e) ==
    IF "validation" \in e.contains \/ "invalid" \in e.contains THEN 400
    ELSE IF "unauthorized" \in e.contains \/ "auth" \in e.contains THEN 401
    ELSE IF "forbidden" \in e.contains THEN 403
    ELSE IF "not found" \in e.contains \/ "404" \in e.contains THEN 404
    ELSE 500

\* An exception that leaves a view: Flask answers an HTTPException with
\* its code and anything else with 500 (main.py registers no error
\* handler).
FlaskStatus(e) == IF e.code # 0 THEN e.code ELSE 500

\* A view function of register_routes, by what distinguishes it from the
\* others: what its path parameters name, in the order the engine call
\* takes them, and the validator it applies to each; whether a rejected
\* parameter is written to the audit log; whether the view catches
\* exceptions (`except Exception as e: return handle_exception(e)`) or lets
\* them leave; the engine method; the AuditAction; the success flag of the
\* audit row (True or the engine's result) and its resource.
View(name, parameters, validators, audits_rejection, catches, call, action,
     success, resource) ==
    [name |-> name, parameters |-> parameters, validators |-> validators,
     audits_rejection |-> audits_rejection, catches |-> catches,
     call |-> call, action |-> action, success |-> success,
     resource |-> resource]

view_check_membership ==
    View("check_membership", <<"user", "role">>, <<"user", "role">>,
         TRUE, TRUE, "has_membership", "CHECK_MEMBERSHIP", "true", "args")

view_add_membership ==
    View("add_membership", <<"user", "role">>, <<"user", "role">>,
         TRUE, FALSE, "add_membership", "ADD_MEMBERSHIP", "result", "args")

view_remove_membership ==
    View("remove_membership", <<"user", "role">>, <<"user", "role">>,
         TRUE, FALSE, "del_membership", "REMOVE_MEMBERSHIP", "result", "args")

view_check_permission ==
    View("check_permission", <<"role", "permission">>, <<"role", "permission">>,
         TRUE, FALSE, "has_permission", "CHECK_PERMISSION", "true", "args")

view_add_permission ==
    View("add_permission", <<"role", "permission">>, <<"role", "permission">>,
         TRUE, FALSE, "add_permission", "ADD_PERMISSION", "result", "args")

view_remove_permission ==
    View("remove_permission", <<"role", "permission">>, <<"role", "permission">>,
         TRUE, FALSE, "del_permission", "REMOVE_PERMISSION", "result", "args")

view_check_user_permission ==
    View("check_user_permission", <<"user", "permission">>, <<"user", "permission">>,
         TRUE, TRUE, "user_has_permission", "CHECK_PERMISSION", "true", "args")

view_get_user_permissions ==
    View("get_user_permissions", <<"user">>, <<"user">>,
         TRUE, TRUE, "get_user_permissions", "USER_PERMISSIONS", "true", "args")

view_get_role_permissions ==
    View("get_role_permissions", <<"role">>, <<"role">>,
         TRUE, TRUE, "get_permissions", "LIST_PERMISSIONS", "true", "args")

view_get_user_roles ==
    View("get_user_roles", <<"user">>, <<"user">>,
         TRUE, FALSE, "get_user_roles", "LIST_MEMBERSHIPS", "true", "args")

view_get_role_members ==
    View("get_role_members", <<"role">>, <<"role">>,
         TRUE, FALSE, "get_role_members", "LIST_MEMBERSHIPS", "true", "args")

view_list_roles ==
    View("list_roles", <<>>, <<>>,
         TRUE, FALSE, "get_roles", "LIST_ROLES", "true", "all")

view_which_roles_can ==
    View("which_roles_can", <<"permission">>, <<"permission">>,
         TRUE, FALSE, "which_roles_can", "LIST_ROLES", "true", "args")

view_which_users_can ==
    View("which_users_can", <<"permission">>, <<"permission">>,
         TRUE, FALSE, "which_users_can", "LIST_MEMBERSHIPS", "true", "args")

view_create_role ==
    View("create_role", <<"role">>, <<"role">>,
         TRUE, FALSE, "add_role", "CREATE_ROLE", "result", "args")

view_delete_role ==
    View("delete_role", <<"role">>, <<"role">>,
         TRUE, TRUE, "del_role", "DELETE_ROLE", "result", "args")

view_get_users_for_workflow ==
    View("get_users_for_workflow", <<"permission">>, <<"permission">>,
         FALSE, TRUE, "which_users_can", "LIST_MEMBERSHIPS", "true", "workflow")

view_check_user_workflow_permission ==
    View("check_user_workflow_permission", <<"user", "permission">>, <<"user", "role">>,
         FALSE, TRUE, "user_has_permission", "CHECK_PERMISSION", "true", "workflow")

Views ==
    {view_check_membership,
     view_add_membership,
     view_remove_membership,
     view_check_permission,
     view_add_permission,
     view_remove_permission,
     view_check_user_permission,
     view_get_user_permissions,
     view_get_role_permissions,
     view_get_user_roles,
     view_get_role_members,
     view_list_roles,
     view_which_roles_can,
     view_which_users_can,
     view_create_role,
     view_delete_role,
     view_get_users_for_workflow,
     view_check_user_workflow_permission}

\* The engine call of a view: the tables it leaves committed and the value
\* it returns.
service_call(call, client, args) ==
    CASE call = "has_membership" ->
           [tables |-> CommittedTables,
            result |-> service_has_membership(client, args[1], args[2])]
      [] call = "add_membership" ->
           [tables |-> service_add_membership(client, args[1], args[2]),
            result |-> service_add_membership_result(client, args[1], args[2])]
      [] call = "del_membership" ->
           [tables |-> service_del_membership(client, args[1], args[2]),
            result |-> TRUE]
      [] call = "has_permission" ->
           [tables |-> CommittedTables,
            result |-> service_has_permission(client, args[1], args[2])]
      [] call = "add_permission" ->
           [tables |-> service_add_permission(client, args[1], args[2]),
            result |-> service_add_permission_result(client, args[1], args[2])]
      [] call = "del_permission" ->
           [tables |-> service_del_permission(client, args[1], args[2]),
            result |-> TRUE]
      [] call = "user_has_permission" ->
           [tables |-> CommittedTables,
            result |-> service_user_has_permission(client, args[1], args[2])]
      [] call = "get_user_permissions" ->
           [tables |-> CommittedTables,
            result |-> service_get_user_permissions(client, args[1])]
      [] call = "get_permissions" ->
           [tables |-> CommittedTables,
            result |-> service_get_permissions(client, args[1])]
      [] call = "get_user_roles" ->
           [tables |-> CommittedTables,
            result |-> service_get_user_roles(client, args[1])]
      [] call = "get_role_members" ->
           [tables |-> CommittedTables,
            result |-> service_get_role_members(client, args[1])]
      [] call = "get_roles" ->
           [tables |-> CommittedTables, result |-> service_get_roles(client)]
      [] call = "which_roles_can" ->
           [tables |-> CommittedTables,
            result |-> service_which_roles_can(client, args[1])]
      [] call = "which_users_can" ->
           [tables |-> CommittedTables,
            result |-> service_which_users_can(client, args[1])]
      [] call = "add_role" ->
           [tables |-> service_add_role(client, args[1]), result |-> TRUE]
      [] call = "del_role" ->
           [tables |-> service_del_role(client, args[1]),
            result |-> service_del_role_result(client, args[1])]

-----------------------------------------------------------------------------
(* auth/audit.py                                                           *)

RECURSIVE Join(_)
\* " ".join(tokens)
Join(tokens) ==
    IF tokens = <<>> THEN <<>>
    ELSE IF Len(tokens) = 1 THEN tokens[1]
    ELSE tokens[1] \o <<" ">> \o Join(Tail(tokens))

\* header.replace("Bearer ", "")
WithoutBearer(header) ==
    IF Len(header) > 1 /\ header[1] = Bearer
    THEN Join(Tail(header))
    ELSE Join(header)

\* request.headers.get("Authorization", "").replace("Bearer ", "")[:10] + "..."
TruncatedClientId(header) ==
    LET text == WithoutBearer(header)
    IN  SubSeq(text, 1, IF Len(text) < 10 THEN Len(text) ELSE 10)
            \o <<".", ".", ".">>

\* auth_header.replace("Bearer ", "") if auth_header.startswith("Bearer ")
\* else "unknown"
HeaderClientId(header) ==
    IF Len(header) > 1 /\ header[1] = Bearer
    THEN WithoutBearer(header)
    ELSE <<"u", "n", "k", "n", "o", "w", "n">>

\* the user= and resource= arguments of a view's log_audit_event calls
AuditUser(view, args) ==
    IF \E i \in DOMAIN args : view.parameters[i] = "user"
    THEN args[CHOOSE i \in DOMAIN args : view.parameters[i] = "user"]
    ELSE None

AuditResource(view, args) ==
    CASE view.resource = "args" -> args
      [] view.resource = "all" -> <<<<"a", "l", "l">>>>
      [] view.resource = "workflow" ->
           <<<<"w", "o", "r", "k", "f", "l", "o", "w">>, args[Len(args)]>>

\* AuditLog(client_id, user, action, resource, success)
AuditLog(client_id, user, action, resource, success) ==
    [client_id |-> client_id, user |-> user, action |-> action,
     resource |-> resource, success |-> success]

\* Mutant: the event goes to the structured logger only; no row is added.
log_audit_event_LogOnly(entry, write_fails) == <<>>

\* Mutant: the failed write is not rolled back; the added row stays.
log_audit_event_NoRollback(entry, write_fails) == <<entry>>

\* log_audit_event: the rows its own session leaves in audit_log.
\* session.add(entry); session.commit(); an exception of either is caught
\* (`except Exception`), logged and answered with session.rollback();
\* nothing is raised to the caller.
log_audit_event(entry, write_fails) ==
    IF write_fails THEN <<>> ELSE <<entry>>

-----------------------------------------------------------------------------
(* auth/routes.py: a view function from the request to the response.       *)

\* What one run of a view leaves: the exchange (the request, the faults
\* that struck it, the status and body of the response, whether an engine
\* method was invoked, the exception raised in the view, how many audit
\* rows were written, the request's number), the committed tables and the
\* audit rows added.
\*
\* The parameters are validated first; a rejected parameter is answered
\* 400 (abort(400) or APIResponse.bad_request) after its audit row.  Then
\* _get_auth_service runs inside `try`: its abort leaves the view, or is
\* caught and handed to handle_exception like any other exception.  Then
\* the engine method runs; an exception of the store leaves no change
\* behind (db.close() discards the open transaction).  Then the audit row
\* of the call is written and the result returned with status 200.
Handle(view, header, args, store_fault, audit_fault) ==
    LET rejected == {i \in DOMAIN args :
                        ~Validate(view.validators[i], args[i])}
        credential == _get_auth_service(header)
        call == service_call(view.call, credential.client, args)
        Status(e) == IF view.catches THEN handle_exception(e)
                     ELSE FlaskStatus(e)
        Exchange(status, invoked, exception, body, rows, audited) ==
            [route |-> view.name, header |-> header, args |-> args,
             store_fault |-> IF invoked THEN store_fault ELSE NoException,
             audit_failed |-> audited /\ audit_fault,
             status |-> status, invoked |-> invoked,
             exception |-> exception, body |-> body, rows |-> Len(rows),
             serial |-> response.serial + 1]
        rejection ==
            IF view.audits_rejection
            THEN log_audit_event(
                     AuditLog(TruncatedClientId(header),
                              AuditUser(view, args), view.action,
                              AuditResource(view, args), FALSE),
                     audit_fault)
            ELSE <<>>
        record ==
            log_audit_event(
                AuditLog(HeaderClientId(header), AuditUser(view, args),
                         view.action, AuditResource(view, args),
                         IF view.success = "result" THEN call.result
                         ELSE TRUE),
                audit_fault)
    IN  IF rejected # {}
        THEN [exchange |-> Exchange(400, FALSE, NoException, <<>>,
                                    rejection, view.audits_rejection),
              tables |-> CommittedTables, rows |-> rejection]
        ELSE IF credential.exception # NoException
        THEN [exchange |-> Exchange(Status(credential.exception), FALSE,
                                    credential.exception, <<>>, <<>>,
                                    FALSE),
              tables |-> CommittedTables, rows |-> <<>>]
        ELSE IF store_fault # NoException
        THEN [exchange |-> Exchange(Status(store_fault), TRUE, store_fault,
                                    <<>>, <<>>, FALSE),
              tables |-> CommittedTables, rows |-> <<>>]
        ELSE [exchange |-> Exchange(200, TRUE, NoException,
                                    <<call.result>>, record, TRUE),
              tables |-> call.tables, rows |-> record]

\* One request served from beginning to end.
Request(view, header, args, store_fault, audit_fault) ==
    LET served == Handle(view, header, args, store_fault, audit_fault)
    IN  /\ response.serial < MaxRequests
        /\ auth_group' = served.tables.auth_group
        /\ auth_membership' = served.tables.auth_membership
        /\ auth_permission' = served.tables.auth_permission
        /\ membership_groups' = served.tables.membership_groups
        /\ permission_groups' = served.tables.permission_groups
        /\ audit_log' = audit_log \o served.rows
        /\ response' = served.exchange
        /\ UNCHANGED <<encryption_enabled, last, sessions, identity_map>>

route_check_membership(header, args, store_fault, audit_fault) ==
    Request(view_check_membership, header, args, store_fault, audit_fault)

route_add_membership(header, args, store_fault, audit_fault) ==
    Request(view_add_membership, header, args, store_fault, audit_fault)

route_remove_membership(header, args, store_fault, audit_fault) ==
    Request(view_remove_membership, header, args, store_fault, audit_fault)

route_check_permission(header, args, store_fault, audit_fault) ==
    Request(view_check_permission, header, args, store_fault, audit_fault)

route_add_permission(header, args, store_fault, audit_fault) ==
    Request(view_add_permission, header, args, store_fault, audit_fault)

route_remove_permission(header, args, store_fault, audit_fault) ==
    Request(view_remove_permission, header, args, store_fault, audit_fault)

route_check_user_permission(header, args, store_fault, audit_fault) ==
    Request(view_check_user_permission, header, args, store_fault, audit_fault)

route_get_user_permissions(header, args, store_fault, audit_fault) ==
    Request(view_get_user_permissions, header, args, store_fault, audit_fault)

route_get_role_permissions(header, args, store_fault, audit_fault) ==
    Request(view_get_role_permissions, header, args, store_fault, audit_fault)

route_get_user_roles(header, args, store_fault, audit_fault) ==
    Request(view_get_user_roles, header, args, store_fault, audit_fault)

route_get_role_members(header, args, store_fault, audit_fault) ==
    Request(view_get_role_members, header, args, store_fault, audit_fault)

route_list_roles(header, args, store_fault, audit_fault) ==
    Request(view_list_roles, header, args, store_fault, audit_fault)

route_which_roles_can(header, args, store_fault, audit_fault) ==
    Request(view_which_roles_can, header, args, store_fault, audit_fault)

route_which_users_can(header, args, store_fault, audit_fault) ==
    Request(view_which_users_can, header, args, store_fault, audit_fault)

route_create_role(header, args, store_fault, audit_fault) ==
    Request(view_create_role, header, args, store_fault, audit_fault)

route_delete_role(header, args, store_fault, audit_fault) ==
    Request(view_delete_role, header, args, store_fault, audit_fault)

route_get_users_for_workflow(header, args, store_fault, audit_fault) ==
    Request(view_get_users_for_workflow, header, args, store_fault, audit_fault)

route_check_user_workflow_permission(header, args, store_fault, audit_fault) ==
    Request(view_check_user_workflow_permission, header, args, store_fault, audit_fault)

\* the path parameters a view can be given
Arguments(view) ==
    CASE Len(view.parameters) = 0 -> {<<>>}
      [] Len(view.parameters) = 1 ->
           {<<x>> : x \in Parameters(view.parameters[1])}
      [] Len(view.parameters) = 2 ->
           {<<x, y>> : x \in Parameters(view.parameters[1]),
                       y \in Parameters(view.parameters[2])}

\* The faults a request can meet: the store can fail the engine call of a
\* request that gets as far as the engine, and the write of an audit row
\* that the view gets to write.
Accepted(view, args) ==
    \A i \in DOMAIN args : Validate(view.validators[i], args[i])

Authenticated(header) == _get_auth_service(header).exception = NoException

EngineFaults(view, header, args) ==
    IF Accepted(view, args) /\ Authenticated(header)
    THEN {NoException} \cup StoreFaults
    ELSE {NoException}

AuditFaults(view, header, args, store_fault) ==
    IF \/ ~Accepted(view, args) /\ view.audits_rejection
       \/ Accepted(view, args) /\ Authenticated(header)
             /\ store_fault = NoException
    THEN BOOLEAN
    ELSE {FALSE}

\* The store as earlier requests of the tenant can have left it: empty;
\* or after create_role("admin"), add_membership("john", "admin") and
\* add_permission("admin", "read"); or after delete_role("admin") as well.
AdminStore(is_active) ==
    [auth_group |->
         <<[creator |-> TenantKey, role |-> <<"a", "d", "m", "i", "n">>,
            description |-> Null, is_active |-> is_active]>>,
     auth_membership |->
         <<[creator |-> TenantKey, user |-> <<"j", "o", "h", "n">>,
            is_active |-> TRUE]>>,
     auth_permission |->
         <<[creator |-> TenantKey, name |-> <<"r", "e", "a", "d">>,
            is_active |-> TRUE]>>,
     membership_groups |-> {<<1, 1>>},
     permission_groups |-> {<<1, 1>>}]

BoundaryStores ==
    {[auth_group |-> <<>>, auth_membership |-> <<>>, auth_permission |-> <<>>,
      membership_groups |-> {}, permission_groups |-> {}],
     AdminStore(TRUE), AdminStore(FALSE)}

\* The routes run without field encryption.
InitBoundary ==
    /\ \E store \in BoundaryStores :
          /\ auth_group = store.auth_group
          /\ auth_membership = store.auth_membership
          /\ auth_permission = store.auth_permission
          /\ membership_groups = store.membership_groups
          /\ permission_groups = store.permission_groups
    /\ encryption_enabled = FALSE
    /\ last = Call("init", "", <<>>, FALSE, Before("n/a", FALSE))
    /\ sessions = [s \in Sessions |-> IdleSession]
    /\ identity_map = NoObjects
    /\ audit_log = <<>>
    /\ response = NoExchange

NextBoundary ==
    \/ \E h \in Headers, a \in Arguments(view_check_membership) :
          \E sf \in EngineFaults(view_check_membership, h, a) :
             \E af \in AuditFaults(view_check_membership, h, a, sf) :
                route_check_membership(h, a, sf, af)
    \/ \E h \in Headers, a \in Arguments(view_add_membership) :
          \E sf \in EngineFaults(view_add_membership, h, a) :
             \E af \in AuditFaults(view_add_membership, h, a, sf) :
                route_add_membership(h, a, sf, af)
    \/ \E h \in Headers, a \in Arguments(view_remove_membership) :
          \E sf \in EngineFaults(view_remove_membership, h, a) :
             \E af \in AuditFaults(view_remove_membership, h, a, sf) :
                route_remove_membership(h, a, sf, af)
    \/ \E h \in Headers, a \in Arguments(view_check_permission) :
          \E sf \in EngineFaults(view_check_permission, h, a) :
             \E af \in AuditFaults(view_check_permission, h, a, sf) :
                route_check_permission(h, a, sf, af)
    \/ \E h \in Headers, a \in Arguments(view_add_permission) :
          \E sf \in EngineFaults(view_add_permission, h, a) :
             \E af \in AuditFaults(view_add_permission, h, a, sf) :
                route_add_permission(h, a, sf, af)
    \/ \E h \in Headers, a \in Arguments(view_remove_permission) :
          \E sf \in EngineFaults(view_remove_permission, h, a) :
             \E af \in AuditFaults(view_remove_permission, h, a, sf) :
                route_remove_permission(h, a, sf, af)
    \/ \E h \in Headers, a \in Arguments(view_check_user_permission) :
          \E sf \in EngineFaults(view_check_user_permission, h, a) :
             \E af \in AuditFaults(view_check_user_permission, h, a, sf) :
                route_check_user_permission(h, a, sf, af)
    \/ \E h \in Headers, a \in Arguments(view_get_user_permissions) :
          \E sf \in EngineFaults(view_get_user_permissions, h, a) :
             \E af \in AuditFaults(view_get_user_permissions, h, a, sf) :
                route_get_user_permissions(h, a, sf, af)
    \/ \E h \in Headers, a \in Arguments(view_get_role_permissions) :
          \E sf \in EngineFaults(view_get_role_permissions, h, a) :
             \E af \in AuditFaults(view_get_role_permissions, h, a, sf) :
                route_get_role_permissions(h, a, sf, af)
    \/ \E h \in Headers, a \in Arguments(view_get_user_roles) :
          \E sf \in EngineFaults(view_get_user_roles, h, a) :
             \E af \in AuditFaults(view_get_user_roles, h, a, sf) :
                route_get_user_roles(h, a, sf, af)
    \/ \E h \in Headers, a \in Arguments(view_get_role_members) :
          \E sf \in EngineFaults(view_get_role_members, h, a) :
             \E af \in AuditFaults(view_get_role_members, h, a, sf) :
                route_get_role_members(h, a, sf, af)
    \/ \E h \in Headers, a \in Arguments(view_list_roles) :
          \E sf \in EngineFaults(view_list_roles, h, a) :
             \E af \in AuditFaults(view_list_roles, h, a, sf) :
                route_list_roles(h, a, sf, af)
    \/ \E h \in Headers, a \in Arguments(view_which_roles_can) :
          \E sf \in EngineFaults(view_which_roles_can, h, a) :
             \E af \in AuditFaults(view_which_roles_can, h, a, sf) :
                route_which_roles_can(h, a, sf, af)
    \/ \E h \in Headers, a \in Arguments(view_which_users_can) :
          \E sf \in EngineFaults(view_which_users_can, h, a) :
             \E af \in AuditFaults(view_which_users_can, h, a, sf) :
                route_which_users_can(h, a, sf, af)
    \/ \E h \in Headers, a \in Arguments(view_create_role) :
          \E sf \in EngineFaults(view_create_role, h, a) :
             \E af \in AuditFaults(view_create_role, h, a, sf) :
                route_create_role(h, a, sf, af)
    \/ \E h \in Headers, a \in Arguments(view_delete_role) :
          \E sf \in EngineFaults(view_delete_role, h, a) :
             \E af \in AuditFaults(view_delete_role, h, a, sf) :
                route_delete_role(h, a, sf, af)
    \/ \E h \in Headers, a \in Arguments(view_get_users_for_workflow) :
          \E sf \in EngineFaults(view_get_users_for_workflow, h, a) :
             \E af \in AuditFaults(view_get_users_for_workflow, h, a, sf) :
                route_get_users_for_workflow(h, a, sf, af)
    \/ \E h \in Headers, a \in Arguments(view_check_user_workflow_permission) :
          \E sf \in EngineFaults(view_check_user_workflow_permission, h, a) :
             \E af \in AuditFaults(view_check_user_workflow_permission, h, a, sf) :
                route_check_user_workflow_permission(h, a, sf, af)

SpecBoundary == InitBoundary /\ [][NextBoundary]_vars

-----------------------------------------------------------------------------
(* Properties of the boundary                                              *)

\* the view of an exchange
ViewOf(exchange) == CHOOSE view \in Views : view.name = exchange.route

\* The documented shape of a name ("must be 1-64 characters long and
\* contain only alphanumeric, underscore, and hyphen"; 128 for a
\* permission): every character of the text is of the class.
Documented(kind, text) ==
    InClass(text, NameCharacters, 1, IF kind = "permission" THEN 128 ELSE 64)

ParametersDocumented(exchange) ==
    \A i \in DOMAIN exchange.args :
        Documented(ViewOf(exchange).parameters[i], exchange.args[i])

\* the header is `Bearer <key>`
BearerHeader(header) ==
    Len(header) = 2 /\ Lower(header[1]) = Lower(Bearer)

\* C24: an engine method is invoked for a request only if its bearer key
\* passed the tenant-key validator and every path parameter has its
\* documented shape; a request with an undocumented parameter or a bearer
\* key the validator rejects is answered 400 and leaves the role,
\* membership and permission tables as they were.
C24_ValidatedBeforeEngine ==
    [][/\ response'.invoked =>
             /\ BearerHeader(response'.header)
             /\ validate_client_key(response'.header[2])
             /\ ParametersDocumented(response')
       /\ (\/ ~ParametersDocumented(response')
           \/ /\ BearerHeader(response'.header)
              /\ ~validate_client_key(response'.header[2]))
             => (response'.status = 400 /\ tables' = tables)]_vars

\* C25: a request whose Authorization header is missing or is not
\* `Bearer <key>` is answered 401, whatever its path parameters are, and no
\* engine method is invoked for it.
C25_UnauthorizedFirst ==
    (response.route # "none" /\ ~BearerHeader(response.header))
        => (response.status = 401 /\ ~response.invoked)

\* C26: a request whose engine call the store fails with a timeout or a
\* connection failure is answered 503, on every route.
C26_StoreUnavailable ==
    response.store_fault # NoException => response.status = 503

\* the audit row a view writes for the call it served
MatchingRow(exchange, entry) ==
    /\ entry.action = ViewOf(exchange).action
    /\ entry.resource = AuditResource(ViewOf(exchange), exchange.args)
    /\ entry.user = AuditUser(ViewOf(exchange), exchange.args)

\* C27 (as claimed): every request answered with a 2xx status has exactly
\* one audit_log row written for it.
C27_AuditedOnce ==
    [][response'.status \in 200..299
          => /\ Len(audit_log') = Len(audit_log) + 1
             /\ MatchingRow(response', audit_log'[Len(audit_log')])]_vars

\* C27 (amended): every request answered with a 2xx status has at most one
\* audit_log row written for it, and exactly one, matching the request,
\* unless the write of that row failed.
C27_AuditedOnceUnlessWriteFails ==
    [][response'.status \in 200..299
          => IF response'.audit_failed
             THEN audit_log' = audit_log
             ELSE /\ Len(audit_log') = Len(audit_log) + 1
                  /\ SubSeq(audit_log', 1, Len(audit_log)) = audit_log
                  /\ MatchingRow(response', audit_log'[Len(audit_log')])]_vars

\* add_membership answered 200 with its one audit row in the table
C27_Witness ==
    /\ response.route = "add_membership"
    /\ response.status = 200
    /\ ~response.audit_failed
    /\ Len(audit_log) = 1
    /\ audit_log[1].action = "ADD_MEMBERSHIP"
    /\ audit_log[1].success

\* C28: every request that ends in an error response (400 for a rejected
\* parameter, 400 or 401 for a rejected credential, 5xx for an exception of
\* the engine or the store) leaves an audit_log row that records the
\* failure.
C28_ErrorsAudited ==
    [][response'.status >= 400
          => /\ Len(audit_log') = Len(audit_log) + 1
             /\ MatchingRow(response', audit_log'[Len(audit_log')])
             /\ ~audit_log'[Len(audit_log')].success]_vars

\* C29: when the write of an audit row fails, the request is answered as
\* it would have been had the write gone through (same status and body, no
\* exception leaves the view), the engine's committed tables are the same,
\* and audit_log holds no row of the failed write.
C29_AuditFailureIsSilent ==
    [][response'.audit_failed
          => LET written == Handle(ViewOf(response'), response'.header,
                                   response'.args, response'.store_fault,
                                   FALSE)
             IN  /\ response'.status = written.exchange.status
                 /\ response'.body = written.exchange.body
                 /\ response'.exception = NoException
                 /\ tables' = <<written.tables.auth_group,
                                written.tables.auth_membership,
                                written.tables.auth_permission,
                                written.tables.membership_groups,
                                written.tables.permission_groups>>
                 /\ audit_log' = audit_log]_vars

\* create_role committed the new role and answered 200 although the write
\* of its audit row failed
C29_Witness ==
    /\ response.route = "create_role"
    /\ response.audit_failed
    /\ response.status = 200
    /\ response.body = <<TRUE>>
    /\ Len(auth_group) = 1
    /\ auth_group[1].is_active
    /\ auth_membership = <<>>
    /\ audit_log = <<>>

-----------------------------------------------------------------------------
(* auth/encryption.py, byte by byte.  Text is a sequence of one-character  *)
(* strings, bytes are sequences of 0..255.  PBKDF2, HMAC-SHA256 and the    *)
(* AES block function are library primitives: they are represented by      *)
(* fixed keyed mixing functions of the same shape (key and input in,       *)
(* 64, 32 and 16 bytes out); everything the module itself does (encoding,  *)
(* the choice of the IV, the CTR xor, the IV prefix, base64, the slicing   *)
(* in decrypt, the guards and exception handlers of the wrappers) is       *)
(* computed as written.                                                    *)

\* longest text encrypted, and the number of wrapper calls followed
MaxPlainLen == 3
MaxCalls == 3

\* the characters texts are made of, with their UTF-8 encodings
PlainCharacters == {"a", "4", "é"}
Utf8 == [c \in PlainCharacters |->
            CASE c = "a" -> <<97>>
              [] c = "4" -> <<52>>
              [] c = "é" -> <<195, 169>>]

RECURSIVE TextsOfLength(_)
TextsOfLength(n) ==
    IF n = 0 THEN {<<>>}
    ELSE {<<c>> \o t : c \in PlainCharacters, t \in TextsOfLength(n - 1)}

PlainTexts == UNION {TextsOfLength(n) : n \in 0..MaxPlainLen}

\* str.encode()
RECURSIVE encode(_)
encode(text) ==
    IF text = <<>> THEN <<>> ELSE Utf8[Head(text)] \o encode(Tail(text))

\* the outcome of a call that may raise
Returned(value) == [raised |-> FALSE, value |-> value]
Raised == [raised |-> TRUE, value |-> <<>>]

\* bytes.decode(): the text, or UnicodeDecodeError on bytes that are not the
\* encoding of a text
RECURSIVE decode_from(_, _)
decode_from(bytes, i) ==
    IF i > Len(bytes) THEN Returned(<<>>)
    ELSE LET fits == {c \in PlainCharacters :
                        /\ i + Len(Utf8[c]) - 1 <= Len(bytes)
                        /\ SubSeq(bytes, i, i + Len(Utf8[c]) - 1) = Utf8[c]}
         IN  IF fits = {} THEN Raised
             ELSE LET c == CHOOSE x \in fits : TRUE
                      rest == decode_from(bytes, i + Len(Utf8[c]))
                  IN  IF rest.raised THEN Raised
                      ELSE Returned(<<c>> \o rest.value)

decode(bytes) == decode_from(bytes, 1)

\* a ^ b on bytes
Xor(a, b) ==
    LET bit(k) == ((a \div (2 ^ k)) + (b \div (2 ^ k))) % 2
    IN  bit(0) + 2 * bit(1) + 4 * bit(2) + 8 * bit(3)
        + 16 * bit(4) + 32 * bit(5) + 64 * bit(6) + 128 * bit(7)

\* kdf.derive(password_bytes) with length=64
derived_key == [i \in 1..64 |-> (i * 37 + 11) % 256]
aes_key == SubSeq(derived_key, 1, 32)
hmac_key == SubSeq(derived_key, 33, 64)

RECURSIVE Absorb(_, _)
Absorb(bytes, seed) ==
    IF bytes = <<>> THEN seed
    ELSE (Absorb(Tail(bytes), seed) * 33 + Head(bytes)) % 256

\* hmac.new(key, data, hashlib.sha256).digest()
hmac_sha256(key, data) ==
    [i \in 1..32 |-> (key[i] + 31 * Absorb(data, i)) % 256]

\* the IV of a random-nonce scheme: a fresh value at every call
deterministic_iv_Nonce(key, data) ==
    [i \in 1..16 |-> (last.calls * 16 + i) % 256]

\* h.digest()[:16]
deterministic_iv(key, data) == SubSeq(hmac_sha256(key, data), 1, 16)

\* algorithms.AES(key) applied to one 16-byte block
aes_block(key, block) ==
    [i \in 1..16 |-> (key[i] * 7 + block[i] * 13 + key[i + 16] + i) % 256]

\* the CTR counter block: the nonce as a 128-bit big-endian integer plus n
RECURSIVE counter_block(_, _)
counter_block(nonce, n) ==
    IF n = 0 THEN nonce
    ELSE LET carry == CHOOSE k \in 0..16 :
                        /\ \A j \in (k + 1)..16 : nonce[j] = 255
                        /\ k = 0 \/ nonce[k] # 255
             next == [j \in 1..16 |->
                        IF j > carry THEN 0
                        ELSE IF j = carry THEN nonce[j] + 1 ELSE nonce[j]]
         IN  counter_block(next, n - 1)

\* Cipher(algorithms.AES(key), modes.CTR(nonce)): update(data) + finalize(),
\* the same for the encryptor and the decryptor
aes_ctr(key, nonce, data) ==
    [j \in 1..Len(data) |->
        Xor(data[j],
            aes_block(key, counter_block(nonce, (j - 1) \div 16))[((j - 1) % 16) + 1])]

Base64Alphabet ==
    UpperAlphabet \o LowerAlphabet
        \o <<"0", "1", "2", "3", "4", "5", "6", "7", "8", "9", "+", "/">>

\* base64.b64encode(...).decode(): every three bytes give four characters,
\* an incomplete last group is filled with "="
b64encode(bytes) ==
    LET byte(i) == IF i <= Len(bytes) THEN bytes[i] ELSE 0
        bits(g) == byte(3 * g - 2) * 65536 + byte(3 * g - 1) * 256 + byte(3 * g)
        present(g) == IF Len(bytes) >= 3 * g THEN 3 ELSE Len(bytes) - 3 * (g - 1)
        char(g, p) ==
            IF p > present(g) THEN "="
            ELSE Base64Alphabet[((bits(g) \div (64 ^ (3 - p))) % 64) + 1]
    IN  [k \in 1..(4 * ((Len(bytes) + 2) \div 3)) |->
            char(((k - 1) \div 4) + 1, (k - 1) % 4)]

\* base64.b64decode(encrypted_data.encode()): characters outside the
\* alphabet are discarded, the data ends at the padding, and a number of
\* data characters that the padding does not complete raises binascii.Error
b64decode(text) ==
    LET alphabet == Range(Base64Alphabet)
        kept == SelectSeq(text, LAMBDA c : c \in alphabet \cup {"="})
        pads == {i \in 1..Len(kept) : kept[i] = "="}
        stop == IF pads = {} THEN Len(kept) + 1
                ELSE CHOOSE i \in pads : \A j \in pads : i <= j
        fill == Len(kept) - (stop - 1)
        digit(i) ==
            IF i >= stop THEN 0
            ELSE (CHOOSE n \in 1..64 : Base64Alphabet[n] = kept[i]) - 1
        bits(g) == digit(4 * g - 3) * 262144 + digit(4 * g - 2) * 4096
                      + digit(4 * g - 1) * 64 + digit(4 * g)
        bytes == [m \in 1..(((stop - 1) * 3) \div 4) |->
                    (bits(((m - 1) \div 3) + 1) \div (256 ^ (2 - ((m - 1) % 3)))) % 256]
    IN  CASE (stop - 1) % 4 = 0 -> Returned(bytes)
          [] (stop - 1) % 4 = 2 /\ fill >= 2 -> Returned(bytes)
          [] (stop - 1) % 4 = 3 /\ fill >= 1 -> Returned(bytes)
          [] OTHER -> Raised

\* DeterministicEncryption.encrypt
encrypt(data) ==
    LET bytes == encode(data)
        iv == deterministic_iv(hmac_key, bytes)
        ciphertext == aes_ctr(aes_key, iv, bytes)
    IN  b64encode(iv \o ciphertext)

\* DeterministicEncryption.decrypt; modes.CTR refuses a nonce that is not
\* one block long
decrypt(encrypted_data) ==
    LET encrypted_bytes == b64decode(encrypted_data)
        size == Len(encrypted_bytes.value)
        iv == SubSeq(encrypted_bytes.value, 1, IF size < 16 THEN size ELSE 16)
        ciphertext == SubSeq(encrypted_bytes.value, Len(iv) + 1, size)
    IN  IF encrypted_bytes.raised \/ Len(iv) # 16 THEN Raised
        ELSE decode(aes_ctr(aes_key, iv, ciphertext))

\* FieldEncryption.encrypt_field; encrypt raises on no text, so the handler
\* that returns the value unencrypted has nothing to catch
encrypt_field(field_value) ==
    IF ~encryption_enabled \/ field_value = <<>>
    THEN field_value
    ELSE encrypt(field_value)

\* FieldEncryption.decrypt_field: a failed decryption returns its input
decrypt_field(encrypted_value) ==
    IF ~encryption_enabled \/ encrypted_value = <<>>
    THEN encrypted_value
    ELSE LET decrypted == decrypt(encrypted_value)
         IN  IF decrypted.raised THEN encrypted_value ELSE decrypted.value

\* the record of one wrapper call: what went in, what came out
FieldCall(op, data, value, calls) ==
    [op |-> op, data |-> data, value |-> value, calls |-> calls]

InitEncryption ==
    /\ auth_group = <<>>
    /\ auth_membership = <<>>
    /\ auth_permission = <<>>
    /\ membership_groups = {}
    /\ permission_groups = {}
    /\ encryption_enabled \in BOOLEAN
    /\ last = FieldCall("none", <<>>, <<>>, 0)
    /\ sessions = [s \in Sessions |-> IdleSession]
    /\ identity_map = NoObjects
    /\ audit_log = <<>>
    /\ response = NoExchange

\* encrypt_sensitive_data(data), as the column setters and the lookups of
\* the engine call it
EncryptField(data) ==
    /\ last.calls < MaxCalls
    /\ last' = FieldCall("encrypt", data, encrypt_field(data), last.calls + 1)
    /\ UNCHANGED <<auth_group, auth_membership, auth_permission,
                   membership_groups, permission_groups, encryption_enabled,
                   sessions, identity_map, audit_log, response>>

\* decrypt_sensitive_data(data), as the column getters call it on a stored
\* value
DecryptField(data) ==
    /\ last.calls < MaxCalls
    /\ last' = FieldCall("decrypt", data, decrypt_field(data), last.calls + 1)
    /\ UNCHANGED <<auth_group, auth_membership, auth_permission,
                   membership_groups, permission_groups, encryption_enabled,
                   sessions, identity_map, audit_log, response>>

\* a column getter reads what the setter stored
ReadStored ==
    /\ last.op = "encrypt"
    /\ DecryptField(last.value)

\* the getters also meet values stored in the clear before encryption was
\* switched on
NextEncryption ==
    \/ \E data \in PlainTexts : EncryptField(data)
    \/ ReadStored
    \/ \E data \in TextsOfLength(1) : DecryptField(data)

SpecEncryption == InitEncryption /\ [][NextEncryption]_vars

\* C30: with the key fixed and x a non-empty text, decrypting what the
\* wrapper made of x gives x back; encrypting x again gives the ciphertext
\* it gave before; and so the value a setter stored for x is the value a
\* lookup that follows computes for x when it filters.
C30_RoundTripAndDeterminism ==
    [][/\ (/\ last.op = "encrypt" /\ last.data # <<>>
           /\ last'.op = "decrypt" /\ last'.data = last.value)
              => last'.value = last.data
       /\ (/\ last.op = "encrypt" /\ last.data # <<>>
           /\ last'.op = "encrypt" /\ last'.data = last.data)
              => last'.value = last.value
       /\ (last.op = "encrypt" /\ last.data # <<>>)
              => encrypt_field(last.data) = last.value]_vars

\* a two-byte character went through the cipher and came back: the stored
\* value is base64 of 16 + 3 bytes, and decrypting it returned the text
C30_Witness ==
    /\ encryption_enabled
    /\ last.op = "decrypt"
    /\ last.calls = 2
    /\ Len(last.data) = 28
    /\ last.data # encrypt(<<"a", "a">>)
    /\ last.value = <<"é", "4">>
    /\ last.data = encrypt(<<"é", "4">>)

-----------------------------------------------------------------------------
(* Sensitive columns at rest                                               *)

\* C31: with encryption enabled, every stored user, permission name and
\* role description is a ciphertext (a description may be NULL); no write
\* of AuthorizationService leaves a plaintext in these columns.
C31_EncryptedAtRest ==
    encryption_enabled =>
        /\ \A g \in DOMAIN auth_group :
              \/ auth_group[g].description = Null
              \/ IsCiphertext(auth_group[g].description)
        /\ \A m \in DOMAIN auth_membership :
              IsCiphertext(auth_membership[m].user)
        /\ \A p \in DOMAIN auth_permission :
              IsCiphertext(auth_permission[p].name)

-----------------------------------------------------------------------------
(* The tenant key in upper and lower case: requests of one tenant whose    *)
(* client sends the same UUID in either spelling.                          *)

\* requests followed in a row
MaxCaseRequests == 3

UpperCharacter(c) ==
    IF c \in Range(LowerAlphabet)
    THEN UpperAlphabet[CHOOSE i \in DOMAIN LowerAlphabet : LowerAlphabet[i] = c]
    ELSE c

\* str.upper()
Upper(text) == [i \in DOMAIN text |-> UpperCharacter(text[i])]

CaseHeaders == {<<Bearer, TenantKey>>, <<Bearer, Upper(TenantKey)>>}

CaseViews ==
    {view_create_role, view_delete_role, view_list_roles,
     view_add_membership, view_check_membership}

InitCase ==
    /\ auth_group = <<>>
    /\ auth_membership = <<>>
    /\ auth_permission = <<>>
    /\ membership_groups = {}
    /\ permission_groups = {}
    /\ encryption_enabled = FALSE
    /\ last = Call("init", "", <<>>, FALSE, Before("n/a", FALSE))
    /\ sessions = [s \in Sessions |-> IdleSession]
    /\ identity_map = NoObjects
    /\ audit_log = <<>>
    /\ response = NoExchange

\* One request of the tenant served from beginning to end, the store and
\* the audit table working.
TenantRequest(view, header, args) ==
    LET served == Handle(view, header, args, NoException, FALSE)
    IN  /\ response.serial < MaxCaseRequests
        /\ auth_group' = served.tables.auth_group
        /\ auth_membership' = served.tables.auth_membership
        /\ auth_permission' = served.tables.auth_permission
        /\ membership_groups' = served.tables.membership_groups
        /\ permission_groups' = served.tables.permission_groups
        /\ audit_log' = audit_log \o served.rows
        /\ response' = served.exchange
        /\ UNCHANGED <<encryption_enabled, last, sessions, identity_map>>

NextCase ==
    \E view \in CaseViews, header \in CaseHeaders :
        \E args \in {a \in Arguments(view) : Accepted(view, a)} :
            TenantRequest(view, header, args)

SpecCase == InitCase /\ [][NextCase]_vars

\* C32: the key stored with a role is the lower-case form of the bearer
\* UUID, and the roles list_roles returns under an accepted key are the
\* active roles of that UUID whichever letter case the key that created
\* them was sent in.
C32_CanonicalTenantKey ==
    /\ \A g \in DOMAIN auth_group :
          auth_group[g].creator = Lower(auth_group[g].creator)
    /\ (response.route = "list_roles" /\ response.status = 200)
          => \A g \in DOMAIN auth_group :
                (/\ auth_group[g].is_active
                 /\ Lower(auth_group[g].creator) = Lower(response.header[2]))
                    => \E i \in DOMAIN response.body[1] :
                          response.body[1][i].role = auth_group[g].role

-----------------------------------------------------------------------------
(* Soft deletion and revival of a role                                     *)

\* The link rows of the role named r, whatever its is_active flag: the
\* active membership of u is linked to the row, the active permission p is
\* linked to the row.
StoredMember(c, u, r) ==
    \E g \in DOMAIN auth_group, m \in DOMAIN auth_membership :
        /\ auth_group[g].creator = c /\ auth_group[g].role = r
        /\ auth_membership[m].creator = c /\ auth_membership[m].is_active
        /\ decrypt_sensitive_data(auth_membership[m].user) = u
        /\ <<m, g>> \in membership_groups

StoredPermission(c, r, p) ==
    \E g \in DOMAIN auth_group, q \in DOMAIN auth_permission :
        /\ auth_group[g].creator = c /\ auth_group[g].role = r
        /\ auth_permission[q].creator = c /\ auth_permission[q].is_active
        /\ decrypt_sensitive_data(auth_permission[q].name) = p
        /\ <<q, g>> \in permission_groups

\* C33: what has_membership(u, r), has_permission(r, p) and
\* user_has_permission(u, p) returned when del_role(r) was called is what
\* the link rows kept for r say; these rows do not change while r is
\* inactive; and when add_role(r) revives r the three reads return what
\* the rows say again, nothing having been granted anew.
C33_RevivalRestoresLinks ==
    [][\A c \in OneClient, r \in Roles :
          /\ (/\ last'.op = "del_role" /\ last'.client = c
              /\ last'.args = <<r>> /\ last'.result)
                => \A u \in Users, p \in Permissions :
                      /\ has_membership(c, u, r) <=> StoredMember(c, u, r)'
                      /\ has_permission(c, r, p) <=> StoredPermission(c, r, p)'
                      /\ user_has_permission(c, u, p)
                            <=> \/ user_has_permission(c, u, p)'
                                \/ /\ StoredMember(c, u, r)'
                                   /\ StoredPermission(c, r, p)'
          /\ (RoleState(c, r) = "inactive" /\ RoleState(c, r)' = "inactive")
                => \A u \in Users, p \in Permissions :
                      /\ StoredMember(c, u, r)' <=> StoredMember(c, u, r)
                      /\ StoredPermission(c, r, p)' <=> StoredPermission(c, r, p)
          /\ (/\ last'.op = "add_role" /\ last'.client = c
              /\ last'.args[1] = r /\ last'.result
              /\ last'.before.role = "inactive")
                => \A u \in Users, p \in Permissions :
                      /\ has_membership(c, u, r)' <=> StoredMember(c, u, r)
                      /\ has_permission(c, r, p)' <=> StoredPermission(c, r, p)
                      /\ user_has_permission(c, u, p)'
                            <=> \/ user_has_permission(c, u, p)
                                \/ /\ StoredMember(c, u, r)
                                   /\ StoredPermission(c, r, p)]_vars

\* add_role has just revived "admin", and john is its member and holds
\* "read" through it without a new grant
C33_Witness ==
    /\ last.op = "add_role"
    /\ last.args[1] = "admin"
    /\ last.result
    /\ last.before.role = "inactive"
    /\ \A c \in OneClient :
          /\ has_membership(c, "john", "admin")
          /\ has_permission(c, "admin", "read")
          /\ user_has_permission(c, "john", "read")
          /\ ~has_membership(c, "john", "user")

\* C34: once del_permission(r, p) has returned true, has_permission(r, p)
\* is false and stays false until add_permission(r, p) is called, and the
\* same for del_membership(u, r), has_membership(u, r) and
\* add_membership(u, r), whatever del_role(r) or add_role(r) does around
\* the unlink.  Checked on the state the unlink leaves and on the step
\* that follows it.
C34_UnlinkedUntilRegranted ==
    [][\A c \in OneClient, r \in Roles :
          /\ \A p \in Permissions :
                /\ (/\ last'.op = "del_permission" /\ last'.client = c
                    /\ last'.args = <<r, p>> /\ last'.result)
                      => ~has_permission(c, r, p)'
                /\ (/\ last.op = "del_permission" /\ last.client = c
                    /\ last.args = <<r, p>> /\ last.result
                    /\ ~(last'.op = "add_permission" /\ last'.args = <<r, p>>))
                      => ~has_permission(c, r, p)'
          /\ \A u \in Users :
                /\ (/\ last'.op = "del_membership" /\ last'.client = c
                    /\ last'.args = <<u, r>> /\ last'.result)
                      => ~has_membership(c, u, r)'
                /\ (/\ last.op = "del_membership" /\ last.client = c
                    /\ last.args = <<u, r>> /\ last.result
                    /\ ~(last'.op = "add_membership" /\ last'.args = <<u, r>>))
                      => ~has_membership(c, u, r)']_vars

-----------------------------------------------------------------------------
(* The three reads of "user u can p"                                       *)

\* C35: in every reachable state u is listed by which_users_can(p) exactly
\* when user_has_permission(u, p) is true, and exactly when p is listed by
\* get_user_permissions(u).
C35_ViewsAgree ==
    \A c \in OneClient, u \in Users, p \in Permissions :
        /\ (\E i \in DOMAIN which_users_can(c, p) :
               which_users_can(c, p)[i].user = u)
              <=> user_has_permission(c, u, p)
        /\ user_has_permission(c, u, p)
              <=> \E i \in DOMAIN get_user_permissions(c, u) :
                     get_user_permissions(c, u)[i].name = p

\* john can "read" through "admin" by all three reads, while jane, a member
\* of the soft-deleted role "user" that also holds "read", cannot by any
C35_Witness ==
    \A c \in OneClient :
        /\ user_has_permission(c, "john", "read")
        /\ Len(which_users_can(c, "read")) = 1
        /\ which_users_can(c, "read")[1].user = "john"
        /\ Len(get_user_permissions(c, "john")) = 1
        /\ RoleState(c, "user") = "inactive"
        /\ StoredMember(c, "jane", "user")
        /\ StoredPermission(c, "user", "read")
        /\ ~user_has_permission(c, "jane", "read")
        /\ get_user_permissions(c, "jane") = <<>>

-----------------------------------------------------------------------------
(* Store sessions, statement by statement: one run of a view function, of  *)
(* log_audit_event inside it, or of a `with get_db()` block.  `last` is    *)
(* the frame of the run (what runs, its inputs, the statement it is at,    *)
(* the exception in flight, the status it answers); `sessions` lists the   *)
(* sessions SessionLocal() has handed out, each with what was done to it.  *)

NoFrame ==
    [op |-> "none", view |-> "none", header |-> None, args |-> <<>>,
     store_fault |-> NoException, audit_fault |-> FALSE,
     body_raises |-> FALSE, pc |-> "idle", resume |-> "idle",
     raising |-> NoException, result |-> <<>>, status |-> 0]

ViewNamed(name) == CHOOSE view \in Views : view.name = name

\* SessionLocal()
NewSession(owner) == [owner |-> owner, events |-> <<>>]

\* session.commit(), session.rollback(), session.close() on the youngest
\* session of the owner
Record(owner, event) ==
    LET mine == {i \in DOMAIN sessions : sessions[i].owner = owner}
        s == CHOOSE i \in mine : \A j \in mine : j <= i
    IN  [sessions EXCEPT ![s].events = Append(@, event)]

InitRelease ==
    /\ auth_group = <<>>
    /\ auth_membership = <<>>
    /\ auth_permission = <<>>
    /\ membership_groups = {}
    /\ permission_groups = {}
    /\ encryption_enabled = FALSE
    /\ last = NoFrame
    /\ sessions = <<>>
    /\ identity_map = NoObjects
    /\ audit_log = <<>>
    /\ response = NoExchange

\* Flask dispatches a request to its view function.
Dispatch(view, header, args, store_fault, audit_fault) ==
    /\ last.pc = "idle"
    /\ last' = [NoFrame EXCEPT !.op = "view", !.view = view.name,
                               !.header = header, !.args = args,
                               !.store_fault = store_fault,
                               !.audit_fault = audit_fault,
                               !.pc = "validate"]
    /\ UNCHANGED <<auth_group, auth_membership, auth_permission,
                   membership_groups, permission_groups, encryption_enabled,
                   sessions, identity_map, audit_log, response>>

\* the validation of the path parameters at the top of a view
view_validate ==
    LET view == ViewNamed(last.view)
        rejected == \E i \in DOMAIN last.args :
                        ~Validate(view.validators[i], last.args[i])
    IN  /\ last.op = "view" /\ last.pc = "validate"
        /\ last' = IF rejected /\ view.audits_rejection
                   THEN [last EXCEPT !.pc = "audit", !.resume = "reject"]
                   ELSE IF rejected THEN [last EXCEPT !.pc = "reject"]
                   ELSE [last EXCEPT !.pc = "SessionLocal"]
        /\ UNCHANGED <<auth_group, auth_membership, auth_permission,
                       membership_groups, permission_groups,
                       encryption_enabled, sessions, identity_map,
                       audit_log, response>>

\* abort(400, ...) or return APIResponse.bad_request(...): the view is left
\* before it has asked for a session
view_reject ==
    /\ last.op = "view" /\ last.pc = "reject"
    /\ last' = [last EXCEPT !.pc = "exited", !.status = 400]
    /\ UNCHANGED <<auth_group, auth_membership, auth_permission,
                   membership_groups, permission_groups, encryption_enabled,
                   sessions, identity_map, audit_log, response>>

\* db = SessionLocal()
view_SessionLocal ==
    /\ last.op = "view" /\ last.pc = "SessionLocal"
    /\ sessions' = Append(sessions, NewSession("view"))
    /\ last' = [last EXCEPT !.pc = "authenticate"]
    /\ UNCHANGED <<auth_group, auth_membership, auth_permission,
                   membership_groups, permission_groups, encryption_enabled,
                   identity_map, audit_log, response>>

\* Mutant: the view has no `finally` clause; an exception that is not
\* caught leaves it directly.
AfterRaise_NoFinally(view) == IF view.catches THEN "except" ELSE "exited"

\* where an exception raised inside the `try` block goes: to the
\* `except Exception` clause of the views that have one, else to `finally`
AfterRaise(view) == IF view.catches THEN "except" ELSE "finally"

\* auth_service = _get_auth_service(db), the first statement of the `try`
view_authenticate ==
    LET view == ViewNamed(last.view)
        credential == _get_auth_service(last.header)
    IN  /\ last.op = "view" /\ last.pc = "authenticate"
        /\ last' = IF credential.exception # NoException
                   THEN [last EXCEPT !.raising = credential.exception,
                                     !.pc = AfterRaise(view)]
                   ELSE [last EXCEPT !.pc = "engine"]
        /\ UNCHANGED <<auth_group, auth_membership, auth_permission,
                       membership_groups, permission_groups,
                       encryption_enabled, sessions, identity_map,
                       audit_log, response>>

\* result = auth_service.<method>(...): the engine method with its commit,
\* or the exception of the store
view_engine ==
    LET view == ViewNamed(last.view)
        call == service_call(view.call,
                             _get_auth_service(last.header).client, last.args)
    IN  /\ last.op = "view" /\ last.pc = "engine"
        /\ IF last.store_fault # NoException
           THEN /\ last' = [last EXCEPT !.raising = last.store_fault,
                                        !.pc = AfterRaise(view)]
                /\ UNCHANGED <<auth_group, auth_membership, auth_permission,
                               membership_groups, permission_groups>>
           ELSE /\ last' = [last EXCEPT !.result = <<call.result>>,
                                        !.pc = "audit", !.resume = "return"]
                /\ auth_group' = call.tables.auth_group
                /\ auth_membership' = call.tables.auth_membership
                /\ auth_permission' = call.tables.auth_permission
                /\ membership_groups' = call.tables.membership_groups
                /\ permission_groups' = call.tables.permission_groups
        /\ UNCHANGED <<encryption_enabled, sessions, identity_map,
                       audit_log, response>>

\* except Exception as e: return handle_exception(e)
view_except ==
    /\ last.op = "view" /\ last.pc = "except"
    /\ last' = [last EXCEPT !.status = handle_exception(last.raising),
                            !.raising = NoException, !.pc = "finally"]
    /\ UNCHANGED <<auth_group, auth_membership, auth_permission,
                   membership_groups, permission_groups, encryption_enabled,
                   sessions, identity_map, audit_log, response>>

\* return jsonify(...) / APIResponse.success(...)
view_return ==
    /\ last.op = "view" /\ last.pc = "return"
    /\ last' = [last EXCEPT !.status = 200, !.pc = "finally"]
    /\ UNCHANGED <<auth_group, auth_membership, auth_permission,
                   membership_groups, permission_groups, encryption_enabled,
                   sessions, identity_map, audit_log, response>>

\* finally: db.close(); an exception still in flight leaves the view and
\* Flask answers it
view_finally ==
    /\ last.op = "view" /\ last.pc = "finally"
    /\ sessions' = Record("view", "close")
    /\ last' = [last EXCEPT !.pc = "exited",
                            !.status = IF last.raising # NoException
                                       THEN FlaskStatus(last.raising)
                                       ELSE @]
    /\ UNCHANGED <<auth_group, auth_membership, auth_permission,
                   membership_groups, permission_groups, encryption_enabled,
                   identity_map, audit_log, response>>

\* log_audit_event: session = SessionLocal()
audit_SessionLocal ==
    /\ last.op = "view" /\ last.pc = "audit"
    /\ sessions' = Append(sessions, NewSession("log_audit_event"))
    /\ last' = [last EXCEPT !.pc = "audit_commit"]
    /\ UNCHANGED <<auth_group, auth_membership, auth_permission,
                   membership_groups, permission_groups, encryption_enabled,
                   identity_map, audit_log, response>>

\* log_audit_event: session.add(audit_entry); session.commit(), or the
\* `except Exception` clause with its session.rollback()
audit_commit ==
    LET view == ViewNamed(last.view)
        entry ==
            IF last.resume = "reject"
            THEN AuditLog(TruncatedClientId(last.header),
                          AuditUser(view, last.args), view.action,
                          AuditResource(view, last.args), FALSE)
            ELSE AuditLog(HeaderClientId(last.header),
                          AuditUser(view, last.args), view.action,
                          AuditResource(view, last.args),
                          IF view.success = "result" THEN last.result[1]
                          ELSE TRUE)
    IN  /\ last.op = "view" /\ last.pc = "audit_commit"
        /\ audit_log' = audit_log \o log_audit_event(entry, last.audit_fault)
        /\ sessions' = Record("log_audit_event",
                              IF last.audit_fault THEN "rollback"
                              ELSE "commit")
        /\ last' = [last EXCEPT !.pc = "audit_close"]
        /\ UNCHANGED <<auth_group, auth_membership, auth_permission,
                       membership_groups, permission_groups,
                       encryption_enabled, identity_map, response>>

\* log_audit_event: finally: session.close()
audit_close ==
    /\ last.op = "view" /\ last.pc = "audit_close"
    /\ sessions' = Record("log_audit_event", "close")
    /\ last' = [last EXCEPT !.pc = last.resume]
    /\ UNCHANGED <<auth_group, auth_membership, auth_permission,
                   membership_groups, permission_groups, encryption_enabled,
                   identity_map, audit_log, response>>

\* with get_db() as db: the generator runs to its yield
get_db_SessionLocal(body_raises) ==
    /\ last.pc = "idle"
    /\ sessions' = Append(sessions, NewSession("get_db"))
    /\ last' = [NoFrame EXCEPT !.op = "get_db", !.body_raises = body_raises,
                               !.pc = "yield"]
    /\ UNCHANGED <<auth_group, auth_membership, auth_permission,
                   membership_groups, permission_groups, encryption_enabled,
                   identity_map, audit_log, response>>

\* the body of the with block returns, or raises an exception that the
\* context manager throws into the generator at the yield
get_db_yield ==
    /\ last.op = "get_db" /\ last.pc = "yield"
    /\ last' = IF last.body_raises
               THEN [last EXCEPT !.raising = ConnectionFailure,
                                 !.pc = "except"]
               ELSE [last EXCEPT !.pc = "finally"]
    /\ UNCHANGED <<auth_group, auth_membership, auth_permission,
                   membership_groups, permission_groups, encryption_enabled,
                   sessions, identity_map, audit_log, response>>

\* except Exception: db.rollback(); raise
get_db_except ==
    /\ last.op = "get_db" /\ last.pc = "except"
    /\ sessions' = Record("get_db", "rollback")
    /\ last' = [last EXCEPT !.pc = "finally"]
    /\ UNCHANGED <<auth_group, auth_membership, auth_permission,
                   membership_groups, permission_groups, encryption_enabled,
                   identity_map, audit_log, response>>

\* finally: db.close()
get_db_finally ==
    /\ last.op = "get_db" /\ last.pc = "finally"
    /\ sessions' = Record("get_db", "close")
    /\ last' = [last EXCEPT !.pc = "exited"]
    /\ UNCHANGED <<auth_group, auth_membership, auth_permission,
                   membership_groups, permission_groups, encryption_enabled,
                   identity_map, audit_log, response>>

NextRelease ==
    \/ \E view \in Views, h \in Headers :
          \E a \in Arguments(view) :
             \E sf \in EngineFaults(view, h, a) :
                \E af \in AuditFaults(view, h, a, sf) :
                   Dispatch(view, h, a, sf, af)
    \/ view_validate
    \/ view_reject
    \/ view_SessionLocal
    \/ view_authenticate
    \/ view_engine
    \/ view_except
    \/ view_return
    \/ view_finally
    \/ audit_SessionLocal
    \/ audit_commit
    \/ audit_close
    \/ \E body_raises \in BOOLEAN : get_db_SessionLocal(body_raises)
    \/ get_db_yield
    \/ get_db_except
    \/ get_db_finally

SpecRelease == InitRelease /\ [][NextRelease]_vars

\* how often the session was closed
Closes(session) ==
    Cardinality({i \in DOMAIN session.events : session.events[i] = "close"})

\* C36: no session is closed twice or used after its close; when the view,
\* the with block or log_audit_event has been left, by a return, by an
\* abort or by an exception of the engine, every session handed out was
\* closed exactly once; and get_db rolled its session back before closing
\* it when the body of the with block raised.
C36_SessionsClosedOnce ==
    /\ \A i \in DOMAIN sessions :
          /\ Closes(sessions[i]) <= 1
          /\ Closes(sessions[i]) = 1
                => sessions[i].events[Len(sessions[i].events)] = "close"
    /\ last.pc = "exited"
          => \A i \in DOMAIN sessions : Closes(sessions[i]) = 1
    /\ (last.pc = "exited" /\ last.op = "get_db" /\ last.body_raises)
          => sessions[1].events = <<"rollback", "close">>
    /\ (last.op = "view" /\ last.pc \in {"reject", "return", "finally"})
          => \A i \in DOMAIN sessions :
                sessions[i].owner = "log_audit_event"
                    => Closes(sessions[i]) = 1

\* add_membership was left by the exception of the store raised in the
\* engine call: Flask answers 500, and the one session of the view is closed
C36_Witness ==
    /\ last.op = "view"
    /\ last.view = "add_membership"
    /\ last.pc = "exited"
    /\ last.raising = PoolTimeout
    /\ last.status = 500
    /\ Len(sessions) = 1
    /\ sessions[1] = [owner |-> "view", events |-> <<"close">>]

-----------------------------------------------------------------------------
(* SingletonMeta.__call__ under several threads.  `last` holds the class   *)
(* attributes _lock (its holder) and _instances (the entry of              *)
(* DatabaseEngine), the number of DatabaseEngine objects whose __init__    *)
(* has completed, and for each thread the statement it is at, its local    *)
(* `instance`, what its last call returned, how many calls it has made and *)
(* whether it entered its first call before any instance was stored.       *)

MaxThreads == 3
MaxEngineCalls == 2

Threads == 1..MaxThreads
NoThread == 0
NoInstance == 0

InitSingleton ==
    /\ auth_group = <<>>
    /\ auth_membership = <<>>
    /\ auth_permission = <<>>
    /\ membership_groups = {}
    /\ permission_groups = {}
    /\ encryption_enabled = FALSE
    /\ last = [lock |-> NoThread, instances |-> NoInstance, constructed |-> 0,
               pc |-> [t \in Threads |-> "idle"],
               instance |-> [t \in Threads |-> NoInstance],
               returned |-> [t \in Threads |-> NoInstance],
               calls |-> [t \in Threads |-> 0],
               first |-> [t \in Threads |-> FALSE]]
    /\ sessions = <<>>
    /\ identity_map = NoObjects
    /\ audit_log = <<>>
    /\ response = NoExchange

\* everything but the frame of the threads
StoreAndExchange ==
    <<auth_group, auth_membership, auth_permission, membership_groups,
      permission_groups, encryption_enabled, sessions, identity_map,
      audit_log, response>>

\* Mutant: the lock excludes nobody.
CanAcquire_NoLock == TRUE

\* threading.Lock: `with cls._lock` blocks while another thread holds it
CanAcquire == last.lock = NoThread

\* a thread evaluates DatabaseEngine()
SingletonMeta_call(t) ==
    /\ last.pc[t] = "idle"
    /\ last.calls[t] < MaxEngineCalls
    /\ last' = [last EXCEPT !.pc[t] = "with",
                            !.calls[t] = @ + 1,
                            !.instance[t] = NoInstance,
                            !.first[t] = IF last.calls[t] = 0
                                         THEN last.instances = NoInstance
                                         ELSE @]
    /\ UNCHANGED StoreAndExchange

\* with cls._lock:
with_lock(t) ==
    /\ last.pc[t] = "with"
    /\ CanAcquire
    /\ last' = [last EXCEPT !.lock = t, !.pc[t] = "if"]
    /\ UNCHANGED StoreAndExchange

\* if cls not in cls._instances:
if_not_in_instances(t) ==
    /\ last.pc[t] = "if"
    /\ last' = [last EXCEPT !.pc[t] = IF last.instances = NoInstance
                                      THEN "construct" ELSE "release"]
    /\ UNCHANGED StoreAndExchange

\* instance = super().__call__(*args, **kwargs): __init__ builds the engine
\* and its pool, or raises; the exception leaves the with block, which
\* releases the lock, and nothing is stored
construct(t, raises) ==
    /\ last.pc[t] = "construct"
    /\ last' = IF raises
               THEN [last EXCEPT !.pc[t] = "raised",
                                 !.lock = IF @ = t THEN NoThread ELSE @]
               ELSE [last EXCEPT !.constructed = @ + 1,
                                 !.instance[t] = last.constructed + 1,
                                 !.pc[t] = "store"]
    /\ UNCHANGED StoreAndExchange

\* cls._instances[cls] = instance
store(t) ==
    /\ last.pc[t] = "store"
    /\ last' = [last EXCEPT !.instances = last.instance[t],
                            !.pc[t] = "release"]
    /\ UNCHANGED StoreAndExchange

\* the end of the with block
release(t) ==
    /\ last.pc[t] = "release"
    /\ last' = [last EXCEPT !.lock = IF @ = t THEN NoThread ELSE @,
                            !.pc[t] = "return"]
    /\ UNCHANGED StoreAndExchange

\* return cls._instances[cls]
return_instance(t) ==
    /\ last.pc[t] = "return"
    /\ last' = [last EXCEPT !.returned[t] = last.instances,
                            !.pc[t] = "idle"]
    /\ UNCHANGED StoreAndExchange

\* the caller of a DatabaseEngine() that raised goes on
raised(t) ==
    /\ last.pc[t] = "raised"
    /\ last' = [last EXCEPT !.pc[t] = "idle"]
    /\ UNCHANGED StoreAndExchange

NextSingleton ==
    \E t \in Threads :
       \/ SingletonMeta_call(t)
       \/ with_lock(t)
       \/ if_not_in_instances(t)
       \/ \E raises \in BOOLEAN : construct(t, raises)
       \/ store(t)
       \/ release(t)
       \/ return_instance(t)
       \/ raised(t)

SpecSingleton == InitSingleton /\ [][NextSingleton]_vars

\* C37: whatever the interleaving of the threads, at most one
\* DatabaseEngine is ever constructed, the entry of _instances once set is
\* that instance, and every DatabaseEngine() that has returned returned it.
C37_OneEnginePerProcess ==
    /\ last.constructed <= 1
    /\ last.instances \in {NoInstance, 1}
    /\ \A t \in Threads :
          /\ last.pc[t] = "return" => last.instances = 1
          /\ (last.calls[t] > 0 /\ last.pc[t] = "idle"
                 /\ last.returned[t] # NoInstance)
                => last.returned[t] = 1

\* three threads entered their first DatabaseEngine() before any instance
\* was stored; one instance was constructed and all three got it
C37_Witness ==
    /\ last.constructed = 1
    /\ \A t \in Threads :
          /\ last.first[t]
          /\ last.calls[t] = 1
          /\ last.pc[t] = "idle"
          /\ last.returned[t] = 1

-----------------------------------------------------------------------------
(* auth/circuit_breaker.py and EnhancedAuthClient._make_request.  `last`   *)
(* holds one CircuitBreaker (its attributes as the constructor set them),  *)
(* the clock time.time() reads, the call in progress, and what the last    *)
(* _make_request did: whether request_func was invoked and what the caller *)
(* got.  `streak` is not an attribute of the breaker: it counts, for the   *)
(* properties, the calls since the last success (or the construction) in   *)
(* which the wrapped function raised an expected_exception.                *)

MaxThreshold == 3
MaxTimeout == 2
MaxTime == 4
MaxFailures == 5
NoTime == -1

CLOSED == "closed"
OPEN == "open"
HALF_OPEN == "half_open"

\* what the wrapped function may raise: what request_func makes of a
\* RequestException, another Exception, and a BaseException that is none
Raisable == {"ConnectionError", "ValueError", "KeyboardInterrupt"}
ExpectedExceptions == {"Exception", "ConnectionError"}

\* isinstance(e, expected), the test of an except clause
IsInstance(class, expected) ==
    \/ class = expected
    \/ expected = "Exception" /\ class # "KeyboardInterrupt"

\* CircuitBreaker.__init__
CircuitBreaker(failure_threshold, recovery_timeout, expected_exception) ==
    [failure_threshold |-> failure_threshold,
     recovery_timeout |-> recovery_timeout,
     expected_exception |-> expected_exception,
     failure_count |-> 0,
     last_failure_time |-> NoTime,
     state |-> CLOSED]

InitBreaker ==
    /\ auth_group = <<>>
    /\ auth_membership = <<>>
    /\ auth_permission = <<>>
    /\ membership_groups = {}
    /\ permission_groups = {}
    /\ encryption_enabled = FALSE
    /\ \E n \in 1..MaxThreshold, timeout \in 1..MaxTimeout,
          expected \in ExpectedExceptions :
          last = [cb |-> CircuitBreaker(n, timeout, expected),
                  now |-> 0, running |-> "none", streak |-> 0,
                  sent |-> FALSE, error |-> "none", outcome |-> "none"]
    /\ sessions = <<>>
    /\ identity_map = NoObjects
    /\ audit_log = <<>>
    /\ response = NoExchange

\* Mutant: the breaker closes only on a success in the CLOSED state.
on_success_KeepsState(cb) == [cb EXCEPT !.failure_count = 0]

\* CircuitBreaker.on_success
on_success(cb) == [cb EXCEPT !.failure_count = 0, !.state = CLOSED]

\* Mutant: the breaker opens one failure late.
on_failure_Late(cb, time) ==
    [cb EXCEPT !.failure_count = @ + 1,
               !.last_failure_time = time,
               !.state = IF cb.failure_count + 1 > cb.failure_threshold
                         THEN OPEN ELSE @]

\* CircuitBreaker.on_failure
on_failure(cb, time) ==
    [cb EXCEPT !.failure_count = @ + 1,
               !.last_failure_time = time,
               !.state = IF cb.failure_count + 1 >= cb.failure_threshold
                         THEN OPEN ELSE @]

\* Mutant: an OPEN breaker lets every call through.
Recovered_Always(cb, time) == TRUE

\* self.last_failure_time is not None and
\* time.time() - self.last_failure_time >= self.recovery_timeout
Recovered(cb, time) ==
    /\ cb.last_failure_time # NoTime
    /\ time - cb.last_failure_time >= cb.recovery_timeout

\* what _make_request raises for an exception of circuit_breaker(...)(...)():
\* `except Exception as e: raise ConnectionError(...)`
Wrapped(class) ==
    IF IsInstance(class, "Exception") THEN "ConnectionError" ELSE class

\* time.time() moves on, between calls and while a request is in flight
Tick ==
    /\ last.now < MaxTime
    /\ last' = [last EXCEPT !.now = @ + 1]
    /\ UNCHANGED StoreAndExchange

\* _make_request of a client with circuit_breaker_enabled:
\* CircuitBreaker.call up to
\* the invocation of func, or up to `raise Exception("... is OPEN")`
call ==
    /\ last.running = "none"
    /\ last' =
          IF last.cb.state = OPEN /\ ~Recovered(last.cb, last.now)
          THEN [last EXCEPT !.sent = FALSE, !.outcome = "rejected",
                            !.error = Wrapped("Exception")]
          ELSE [last EXCEPT !.cb.state = IF last.cb.state = OPEN
                                         THEN HALF_OPEN ELSE @,
                            !.running = "call", !.sent = TRUE,
                            !.outcome = "none", !.error = "none"]
    /\ UNCHANGED StoreAndExchange

\* _make_request of a client without circuit_breaker_enabled:
\* direct_result = request_func()
direct ==
    /\ last.running = "none"
    /\ last' = [last EXCEPT !.running = "direct", !.sent = TRUE,
                            !.outcome = "none", !.error = "none"]
    /\ UNCHANGED StoreAndExchange

\* func returned: self.on_success(); return result
func_returns ==
    /\ last.running # "none"
    /\ last' = IF last.running = "call"
               THEN [last EXCEPT !.cb = on_success(last.cb),
                                 !.streak = 0, !.running = "none",
                                 !.outcome = "returned"]
               ELSE [last EXCEPT !.running = "none",
                                 !.outcome = "returned"]
    /\ UNCHANGED StoreAndExchange

\* func raised: `except self.expected_exception as e: self.on_failure();
\* raise e`, or an exception the clause does not match
func_raises(class) ==
    /\ last.running # "none"
    /\ last.cb.failure_count < MaxFailures
    /\ last' = IF last.running = "direct"
               THEN [last EXCEPT !.running = "none", !.outcome = "raised",
                                 !.error = class]
               ELSE IF IsInstance(class, last.cb.expected_exception)
               THEN [last EXCEPT !.cb = on_failure(last.cb, last.now),
                                 !.streak = @ + 1, !.running = "none",
                                 !.outcome = "failed",
                                 !.error = Wrapped(class)]
               ELSE [last EXCEPT !.running = "none", !.outcome = "escaped",
                                 !.error = Wrapped(class)]
    /\ UNCHANGED StoreAndExchange

NextBreaker ==
    \/ Tick
    \/ call
    \/ direct
    \/ func_returns
    \/ \E class \in Raisable : func_raises(class)

SpecBreaker == InitBreaker /\ [][NextBreaker]_vars

\* C38: in every state the breaker is CLOSED exactly when failure_count is
\* below failure_threshold; a call that ends on a CLOSED breaker opens it
\* exactly when it is the failure_threshold-th failure in a row, and leaves
\* it CLOSED otherwise; and a call that returns sets failure_count to 0.
C38_OpensOnNthFailure ==
    /\ [](last.cb.state = CLOSED
            <=> last.cb.failure_count < last.cb.failure_threshold)
    /\ [][
       /\ (last.running = "call" /\ last'.running = "none"
              /\ last.cb.state = CLOSED)
            => /\ last'.cb.state \in {CLOSED, OPEN}
               /\ last'.cb.state = OPEN
                     <=> /\ last'.outcome = "failed"
                         /\ last'.streak = last.cb.failure_threshold
       /\ last'.outcome = "returned" /\ last.running = "call"
            => last'.cb.failure_count = 0]_vars

\* a breaker with failure_threshold 3 was opened by its third failure in a
\* row, at time 3
C38_Witness ==
    /\ last.cb.failure_threshold = 3
    /\ last.cb.state = OPEN
    /\ last.cb.failure_count = 3
    /\ last.streak = 3
    /\ last.outcome = "failed"
    /\ last.cb.last_failure_time = last.now
    /\ last.now = 3

\* C39: a call on a breaker that is OPEN, less than recovery_timeout after
\* its last failure, does not invoke the wrapped function (no request is
\* sent), raises to the caller, and leaves state, failure_count and
\* last_failure_time as they were.
C39_OpenRejectsWithoutCalling ==
    [][(/\ last.running = "none"
        /\ last.cb.state = OPEN
        /\ last.cb.last_failure_time # NoTime
        /\ last.now - last.cb.last_failure_time < last.cb.recovery_timeout
        /\ last'.now = last.now
        /\ last'.running # "direct")
          => /\ last'.running = "none"
             /\ ~last'.sent
             /\ last'.outcome = "rejected"
             /\ last'.error = "ConnectionError"
             /\ last'.cb = last.cb
             /\ last'.streak = last.streak]_vars

\* a breaker with recovery_timeout 2 has just refused a call one second
\* after the failure that opened it
C39_Witness ==
    /\ last.cb.state = OPEN
    /\ last.cb.recovery_timeout = 2
    /\ last.now - last.cb.last_failure_time = 1
    /\ last.outcome = "rejected"
    /\ ~last.sent
    /\ last.error = "ConnectionError"
    /\ last.running = "none"

\* The clock moves, a request in flight ends, and callers go on calling
\* through the breaker however many clients without the breaker call in
\* between.
SpecBreakerFair ==
    /\ SpecBreaker
    /\ WF_vars(Tick)
    /\ SF_vars(call)
    /\ WF_vars(func_returns \/ \E class \in Raisable : func_raises(class))

\* C40: an OPEN breaker is eventually tried again (within the time the
\* clock of the model covers); the call that finds recovery_timeout elapsed
\* invokes the wrapped function with the breaker HALF_OPEN; a trial that
\* returns leaves the breaker CLOSED with failure_count 0, and a trial that
\* fails leaves it OPEN with last_failure_time set to the time of that
\* failure.
C40_OpenIsRetried ==
    /\ (/\ last.cb.state = OPEN
        /\ last.cb.last_failure_time + last.cb.recovery_timeout <= MaxTime)
          ~> (last.cb.state = HALF_OPEN /\ last.running = "call")
    /\ [][
       /\ (/\ last.running = "none"
           /\ last.cb.state = OPEN
           /\ Recovered(last.cb, last.now)
           /\ last'.now = last.now
           /\ last'.running # "direct")
             => /\ last'.cb.state = HALF_OPEN
                /\ last'.running = "call"
                /\ last'.sent
                /\ last'.cb.failure_count = last.cb.failure_count
       /\ (/\ last.cb.state = HALF_OPEN
           /\ last.running = "call"
           /\ last'.running = "none"
           /\ last'.outcome = "returned")
             => /\ last'.cb.state = CLOSED
                /\ last'.cb.failure_count = 0
       /\ (/\ last.cb.state = HALF_OPEN
           /\ last.running = "call"
           /\ last'.running = "none"
           /\ last'.outcome = "failed")
             => /\ last'.cb.state = OPEN
                /\ last'.cb.last_failure_time = last.now
                /\ last'.cb.failure_count = last.cb.failure_count + 1]_vars

\* a trial has failed: the breaker, opened at time 0 by its first failure,
\* is OPEN again with last_failure_time 2, the time of the trial
C40_Witness ==
    /\ last.cb.state = OPEN
    /\ last.cb.failure_threshold = 1
    /\ last.cb.recovery_timeout = 2
    /\ last.cb.failure_count = 2
    /\ last.cb.last_failure_time = 2
    /\ last.now = 2
    /\ last.outcome = "failed"
    /\ last.sent

====
